---- MODULE Spec2Model ----
(***************************************************************************)
(* Model of the collector crate: the manifest index (index.rs), the        *)
(* collector's reload_index, download_descriptors and stream_descriptors   *)
(* (collector.rs), and the descriptor parsers (descriptor/).               *)
(*                                                                         *)
(* The specifications that share the module:                               *)
(*   SpecOverlap   File::overlap applied to bounded files and ranges       *)
(*   SpecReload    CollecTor::new_with_url / reload_index over index.json  *)
(*   SpecDownload  CollecTor::download_descriptors, its three rounds and   *)
(*                 the steps of FileDownloader::download_inner             *)
(*   SpecTwice     download_descriptors called again, the server serving   *)
(*                 every selected file as the manifest describes it        *)
(*   SpecStream    one stream_descriptors stream polled to its end         *)
(*   SpecCodec     VersionnedType serialized and deserialized              *)
(*   SpecDecode    Descriptor::decode on one raw descriptor                *)
(*   SpecBns       BridgeNetworkStatus::parse, line by line                *)
(*   SpecBpa       BridgePoolAssignment::parse on one input                *)
(*   SpecReader    FileReader::read_file on one file of the base path      *)
(*   SpecExtract   descriptor_lines and extract_desc! on one body          *)
(***************************************************************************)
EXTENDS Integers, Sequences, FiniteSets, TLC

VARIABLES
    \* ---- SpecOverlap
    ovFile,      \* the File whose overlap is asked
    ovRange,     \* the RangeBounds argument
    ovResult,    \* <<>> before the call, <<[panic, value]>> after
    \* ---- SpecReload
    online,      \* index_url.is_some()
    diskIndex,   \* <base>/index.json: <<>> absent, <<doc>> present
    index,       \* CollecTor.index
    constructed, \* new_with_url has returned Ok
    lastCall,    \* what the last new/reload_index call did (observation)
    \* ---- SpecDownload
    disk,        \* <base>/<path>: <<>> absent, <<content>> present
    dirs,        \* directories existing under <base>
    call,        \* the download_descriptors call in progress or returned
    tasks,       \* per selected File: the state of its fetch task
    hist,        \* observations of the environment and of earlier calls
    \* ---- SpecStream
    store,       \* <base>/<path> as FileReader finds it: its bodies, or a failure
    stream,      \* the stream returned by stream_descriptors and what it gave
    \* ---- the parsers and codecs, applied to one input
    arg,         \* the input
    res          \* <<>> before the call, <<result>> after

ovVars == <<ovFile, ovRange, ovResult>>
rlVars == <<online, diskIndex, index, constructed, lastCall>>
dlVars == <<disk, dirs, call, tasks, hist>>
stVars == <<store, stream>>
pfVars == <<arg, res>>
vars == <<ovVars, rlVars, dlVars, stVars, pfVars>>

(***************************************************************************)
(* Bounds of the model                                                     *)
(***************************************************************************)
MaxTime == 3

\* Timestamps are minutes since the Unix epoch; epoch() is minute 0.
Epoch == 0
Times == Epoch..MaxTime

(***************************************************************************)
(* index.rs: File and File::overlap                                        *)
(***************************************************************************)
\* std::ops::Bound
Included(v) == [kind |-> "Included", v |-> v]
Excluded(v) == [kind |-> "Excluded", v |-> v]
Unbounded == [kind |-> "Unbounded", v |-> Epoch]

\* RangeBounds::contains
RangeContains(r, x) ==
    /\ CASE r.start.kind = "Included" -> r.start.v <= x
         [] r.start.kind = "Excluded" -> r.start.v < x
         [] OTHER -> TRUE
    /\ CASE r.end.kind = "Included" -> x <= r.end.v
         [] r.end.kind = "Excluded" -> x < r.end.v
         [] OTHER -> TRUE

\* File::time_range: first_published..=last_published
TimeRange(f) == [start |-> Included(f.first_published), end |-> Included(f.last_published)]

\* the closure get_bound: Some(v) as <<v>>, None as <<>>
GetBound(bound) == IF bound.kind = "Unbounded" THEN <<>> ELSE <<bound.v>>

\* a plausible slip: the range strictly inside first..=last is forgotten
OverlapNoFallback(f, r) ==
    [panic |-> FALSE,
     value |-> \/ RangeContains(r, f.first_published)
               \/ RangeContains(r, f.last_published)
               \/ RangeContains(r, f.last_modified)]

\* a plausible slip: the bound is taken before the three contains() tests
OverlapExpectFirst(f, r) ==
    LET b == IF GetBound(r.start) # <<>> THEN GetBound(r.start) ELSE GetBound(r.end)
    IN IF b = <<>> THEN [panic |-> TRUE, value |-> FALSE]
       ELSE [panic |-> FALSE,
             value |-> \/ RangeContains(r, f.first_published)
                       \/ RangeContains(r, f.last_published)
                       \/ RangeContains(r, f.last_modified)
                       \/ RangeContains(TimeRange(f), b[1])]

\* File::overlap; panic is the failed expect()
Overlap(f, r) ==
    IF \/ RangeContains(r, f.first_published)
       \/ RangeContains(r, f.last_published)
       \/ RangeContains(r, f.last_modified)
    THEN [panic |-> FALSE, value |-> TRUE]
    ELSE LET b == IF GetBound(r.start) # <<>> THEN GetBound(r.start) ELSE GetBound(r.end)
         IN IF b = <<>> THEN [panic |-> TRUE, value |-> FALSE]
            ELSE [panic |-> FALSE, value |-> RangeContains(TimeRange(f), b[1])]

Bounds == {Unbounded} \cup {Included(v) : v \in Times} \cup {Excluded(v) : v \in Times}
Ranges == [start : Bounds, end : Bounds]
Closed(a, b) == [start |-> Included(a), end |-> Included(b)]

\* the three timestamps of a File, the other fields left at a fixed value
OverlapFiles ==
    [first_published : Times, last_published : Times, last_modified : Times]

(***************************************************************************)
(* descriptor/kind/mod.rs: Type, by its position in the enum               *)
(***************************************************************************)
BridgeExtraInfo == 1
BridgePoolAssignment == 3
ServerDescriptor == 14
VT(t, major, minor) == [ttype |-> t, version |-> <<major, minor>>]

(***************************************************************************)
(* Strings are sequences of byte values; str's Ord compares them bytewise  *)
(***************************************************************************)
Slash == 47

RECURSIVE SeqLess(_, _)
\* lexicographic order of two sequences of numbers (str::cmp, [u8]::cmp)
SeqLess(s, t) ==
    IF t = <<>> THEN FALSE
    ELSE IF s = <<>> THEN TRUE
    ELSE IF s[1] # t[1] THEN s[1] < t[1]
    ELSE SeqLess(Tail(s), Tail(t))

\* VersionnedType's derived Ord: ttype, then version
VTKey(vt) == <<vt.ttype, vt.version[1], vt.version[2]>>

RECURSIVE TypesLess(_, _)
\* Vec<VersionnedType>'s Ord: lexicographic over the elements
TypesLess(s, t) ==
    IF t = <<>> THEN FALSE
    ELSE IF s = <<>> THEN TRUE
    ELSE IF s[1] # t[1] THEN SeqLess(VTKey(s[1]), VTKey(t[1]))
    ELSE TypesLess(Tail(s), Tail(t))

\* a plausible slip: the fields compared in another order, size before path
FileLessSizeFirst(f, g) ==
    IF f.size # g.size THEN f.size < g.size
    ELSE IF f.path # g.path THEN SeqLess(f.path, g.path)
    ELSE IF f.last_modified # g.last_modified THEN f.last_modified < g.last_modified
    ELSE IF f.types # g.types THEN TypesLess(f.types, g.types)
    ELSE IF f.first_published # g.first_published
         THEN f.first_published < g.first_published
    ELSE IF f.last_published # g.last_published
         THEN f.last_published < g.last_published
    ELSE f.sha256 < g.sha256

\* File's derived Ord: the fields in declaration order
FileLess(f, g) ==
    IF f.path # g.path THEN SeqLess(f.path, g.path)
    ELSE IF f.size # g.size THEN f.size < g.size
    ELSE IF f.last_modified # g.last_modified THEN f.last_modified < g.last_modified
    ELSE IF f.types # g.types THEN TypesLess(f.types, g.types)
    ELSE IF f.first_published # g.first_published
         THEN f.first_published < g.first_published
    ELSE IF f.last_published # g.last_published
         THEN f.last_published < g.last_published
    ELSE f.sha256 < g.sha256

RECURSIVE IterFiles(_)
\* BTreeSet<File>::iter: the elements in ascending order
IterFiles(S) ==
    IF S = {} THEN <<>>
    ELSE LET m == CHOOSE f \in S : \A g \in S \ {f} : FileLess(f, g)
         IN <<m>> \o IterFiles(S \ {m})

\* File::type_matches
TypeMatches(f, ttype) == \E i \in 1..Len(f.types) : f.types[i].ttype = ttype

(***************************************************************************)
(* index.rs: the manifest (SerializedIndex, Directory, File) and its load  *)
(***************************************************************************)
\* Index::default
DefaultIndex == [creation_time |-> Epoch, path |-> <<>>, files |-> {}]

\* serde's deserialization of a file object: a date that is missing
\* (<<>>) defaults to epoch()
DeFile(j) ==
    [path |-> j.path, size |-> j.size, last_modified |-> j.last_modified,
     types |-> j.types,
     first_published |-> IF j.first_published = <<>> THEN Epoch ELSE j.first_published[1],
     last_published |-> IF j.last_published = <<>> THEN Epoch ELSE j.last_published[1],
     sha256 |-> j.sha256]

RECURSIVE Concat(_)
\* Iterator::flat_map / chain over a sequence of sequences
Concat(ss) == IF ss = <<>> THEN <<>> ELSE ss[1] \o Concat(Tail(ss))

RECURSIVE ListFilesRec(_)
\* Directory::list_files_rec: (path components innermost first, file)
ListFilesRec(dir) ==
    Concat([i \in 1..Len(dir.directories) |->
              LET sub == ListFilesRec(dir.directories[i])
              IN [k \in 1..Len(sub) |-> <<Append(sub[k][1], dir.path), sub[k][2]>>]])
    \o [i \in 1..Len(dir.files) |-> <<(<<dir.path>>), DeFile(dir.files[i])>>]

\* Vec::reverse
Reverse(s) == [i \in 1..Len(s) |-> s[Len(s) + 1 - i]]

RECURSIVE Join(_)
\* [&str]::join("/")
Join(parts) ==
    IF parts = <<>> THEN <<>>
    ELSE IF Len(parts) = 1 THEN parts[1]
    ELSE parts[1] \o <<Slash>> \o Join(Tail(parts))

\* SerializedIndex::list_files: only the root's directories are walked
ListFiles(doc) ==
    LET all == Concat([i \in 1..Len(doc.directories) |-> ListFilesRec(doc.directories[i])])
    IN [k \in 1..Len(all) |->
          <<Join(Append(Reverse(all[k][1]), all[k][2].path)), all[k][2]>>]

\* Index::from_file after a successful deserialization: collect() into the BTreeSet
ParseIndex(doc) ==
    LET lf == ListFiles(doc)
    IN [creation_time |-> doc.index_created,
        path |-> doc.path,
        files |-> {[lf[k][2] EXCEPT !.path = lf[k][1]] : k \in 1..Len(lf)}]

\* Index::from_file on the content of <base>/index.json
FromFile(content) ==
    IF content = <<>> THEN [ok |-> FALSE, err |-> "Io"]
    ELSE IF ~content[1].wellformed THEN [ok |-> FALSE, err |-> "Serde"]
    ELSE [ok |-> TRUE, index |-> ParseIndex(content[1])]

(***************************************************************************)
(* File contents and SHA-256                                               *)
(***************************************************************************)
\* the bodies a server may serve, as byte sequences
Body1 == <<1, 2>>
Body2 == <<2>>
Bodies == {Body1, Body2}

RECURSIVE Digest(_, _)
Digest(h, bytes) == IF bytes = <<>> THEN h ELSE Digest(3 * h + bytes[1], Tail(bytes))
\* Sha256 over a content: an injective (collision-free) digest of the bytes
Sha256(content) == Digest(7, content)

(***************************************************************************)
(* The manifests a server may publish                                      *)
(***************************************************************************)
\* names: "r", "a", "b", "a.b", "x", "y"
NameR == <<114>>
NameA == <<97>>
NameB == <<98>>
NameAdotB == <<97, 46, 98>>
NameX == <<120>>
NameY == <<121>>

JFile(name, size, lm, types, fp, lp, sha) ==
    [path |-> name, size |-> size, last_modified |-> lm, types |-> types,
     first_published |-> fp, last_published |-> lp, sha256 |-> sha]
JDir(name, directories, files) ==
    [path |-> name, directories |-> directories, files |-> files]
JDoc(created, revision, url, directories, files) ==
    [wellformed |-> TRUE, index_created |-> created, build_revision |-> revision,
     path |-> url, directories |-> directories, files |-> files]

\* x: a server descriptor file holding Body1
FileX == JFile(NameX, 2, 2, <<VT(ServerDescriptor, 1, 0)>>, <<1>>, <<2>>, Sha256(Body1))
\* y: a bridge extra-info file holding Body2, no first_published
FileY == JFile(NameY, 1, 3, <<VT(BridgeExtraInfo, 1, 3)>>, <<>>, <<3>>, Sha256(Body2))
\* x again, with the size and digest of Body2
FileXother == JFile(NameX, 1, 2, <<VT(ServerDescriptor, 1, 0)>>, <<1>>, <<2>>, Sha256(Body2))
\* a file with no date but last_modified
FileBare == JFile(NameX, 2, 1, <<VT(BridgePoolAssignment, 1, 0), VT(ServerDescriptor, 1, 0)>>,
                  <<>>, <<>>, Sha256(Body1))

BaseUrl == <<104>>

\* text that does not deserialize to a SerializedIndex
Garbage == [wellformed |-> FALSE]
\* r/x
DocOne == JDoc(1, 1, BaseUrl, <<JDir(NameR, <<>>, <<FileX>>)>>, <<>>)
\* r/x and r/y
DocTwo == JDoc(1, 1, BaseUrl, <<JDir(NameR, <<>>, <<FileX, FileY>>)>>, <<>>)
\* the same files listed in the other order by another build
DocTwoSwapped == JDoc(1, 2, BaseUrl, <<JDir(NameR, <<>>, <<FileY, FileX>>)>>, <<>>)
\* a/b/x, a/y, a.b/x in manifest order, and a file at the root
DocTree ==
    JDoc(2, 1, BaseUrl,
         <<JDir(NameA, <<JDir(NameB, <<>>, <<FileBare>>)>>, <<FileY>>),
           JDir(NameAdotB, <<>>, <<FileX>>)>>,
         <<FileX>>)
\* r/x listed twice, with different sizes and digests
DocDup == JDoc(1, 1, BaseUrl, <<JDir(NameR, <<>>, <<FileX, FileXother>>)>>, <<>>)
\* r/x listed twice, the entries differing in last_modified only
DocDupSame ==
    JDoc(1, 1, BaseUrl,
         <<JDir(NameR, <<>>, <<FileX, [FileX EXCEPT !.last_modified = 3]>>)>>, <<>>)
\* an empty manifest that equals Index::default
DocEmpty == JDoc(Epoch, 1, <<>>, <<>>, <<FileX>>)

Manifests == {DocOne, DocTwo, DocTwoSwapped, DocTree, DocDup, DocDupSame, DocEmpty}
ServerTexts == Manifests \cup {Garbage}

(***************************************************************************)
(* collector.rs: CollecTor::new_with_url and CollecTor::reload_index       *)
(***************************************************************************)
\* what the index URL answers: <<>> a transport failure, <<text>> a body
\* (reload_index does not look at the status)
IndexResponses == {<<>>} \cup {<<t>> : t \in ServerTexts}

\* a plausible slip: the manifest is fetched and written whatever index_url is
ReloadAlwaysFetch(cur, isOnline, dsk, resp) ==
    IF resp = <<>>
    THEN [ok |-> FALSE, changed |-> FALSE, err |-> "Reqwest", index |-> cur,
          disk |-> dsk, http |-> 1]
    ELSE LET ff == FromFile(resp)
         IN IF ~ff.ok
            THEN [ok |-> FALSE, changed |-> FALSE, err |-> ff.err, index |-> cur,
                  disk |-> resp, http |-> 1]
            ELSE [ok |-> TRUE, changed |-> cur # ff.index, err |-> "", index |-> ff.index,
                  disk |-> resp, http |-> 1]

\* a plausible slip: "changed" is reported but the new index is not stored
ReloadNoSwap(cur, isOnline, dsk, resp) ==
    IF isOnline /\ resp = <<>>
    THEN [ok |-> FALSE, changed |-> FALSE, err |-> "Reqwest", index |-> cur,
          disk |-> dsk, http |-> 1]
    ELSE LET written == IF isOnline THEN resp ELSE dsk
             ff == FromFile(written)
             n == IF isOnline THEN 1 ELSE 0
         IN IF ~ff.ok
            THEN [ok |-> FALSE, changed |-> FALSE, err |-> ff.err, index |-> cur,
                  disk |-> written, http |-> n]
            ELSE [ok |-> TRUE, changed |-> cur # ff.index, err |-> "", index |-> cur,
                  disk |-> written, http |-> n]

\* a plausible slip: the index is taken out before the fallible steps and an
\* error leaves the default one behind
ReloadClearsOnError(cur, isOnline, dsk, resp) ==
    IF isOnline /\ resp = <<>>
    THEN [ok |-> FALSE, changed |-> FALSE, err |-> "Reqwest", index |-> DefaultIndex,
          disk |-> dsk, http |-> 1]
    ELSE LET written == IF isOnline THEN resp ELSE dsk
             ff == FromFile(written)
             n == IF isOnline THEN 1 ELSE 0
         IN IF ~ff.ok
            THEN [ok |-> FALSE, changed |-> FALSE, err |-> ff.err, index |-> DefaultIndex,
                  disk |-> written, http |-> n]
            ELSE [ok |-> TRUE, changed |-> cur # ff.index, err |-> "", index |-> ff.index,
                  disk |-> written, http |-> n]

\* reload_index as a function of the collector's index, index_url.is_some(),
\* the content of <base>/index.json and the answer of the index URL:
\* the result, the index kept, the content of index.json left, the GETs issued
ReloadIndex(cur, isOnline, dsk, resp) ==
    IF isOnline /\ resp = <<>>
    THEN [ok |-> FALSE, changed |-> FALSE, err |-> "Reqwest", index |-> cur,
          disk |-> dsk, http |-> 1]
    ELSE LET written == IF isOnline THEN resp ELSE dsk
             ff == FromFile(written)
             n == IF isOnline THEN 1 ELSE 0
         IN IF ~ff.ok
            THEN [ok |-> FALSE, changed |-> FALSE, err |-> ff.err, index |-> cur,
                  disk |-> written, http |-> n]
            ELSE [ok |-> TRUE, changed |-> cur # ff.index, err |-> "", index |-> ff.index,
                  disk |-> written, http |-> n]

NoCall ==
    [op |-> "none", online |-> FALSE, ok |-> FALSE, changed |-> FALSE, err |-> "",
     http |-> 0, diskBefore |-> <<>>, indexBefore |-> DefaultIndex, afterOk |-> FALSE]

Observe(op, isOnline, r, afterOk) ==
    [op |-> op, online |-> isOnline, ok |-> r.ok, changed |-> r.changed, err |-> r.err,
     http |-> r.http, diskBefore |-> diskIndex, indexBefore |-> index, afterOk |-> afterOk]

\* CollecTor::new_with_url(base, index_url): a collector with the default
\* index that reloads once; an error leaves no collector
New ==
    \E url \in BOOLEAN, resp \in IndexResponses :
        LET r == ReloadIndex(DefaultIndex, url, diskIndex, resp)
        IN /\ online' = url
           /\ diskIndex' = r.disk
           /\ constructed' = r.ok
           /\ index' = r.index
           /\ lastCall' = [Observe("new", url, r, FALSE) EXCEPT !.indexBefore = DefaultIndex]

\* CollecTor::reload_index on the constructed collector
Reload ==
    /\ constructed
    /\ \E resp \in IndexResponses :
        LET r == ReloadIndex(index, online, diskIndex, resp)
        IN /\ diskIndex' = r.disk
           /\ index' = r.index
           /\ lastCall' = Observe("reload", online, r, lastCall.ok)
           /\ UNCHANGED <<online, constructed>>

\* the environment between two calls: <base>/index.json, which reload_index
\* opens by path on every call, is removed; what the last call left behind is
\* no longer what is on disk, so its observation is dropped
RemoveIndexFile ==
    /\ constructed
    /\ diskIndex # <<>>
    /\ diskIndex' = <<>>
    /\ lastCall' = NoCall
    /\ UNCHANGED <<online, index, constructed>>

(***************************************************************************)
(* collector.rs: CollecTor::download_descriptors and FileDownloader        *)
(***************************************************************************)
\* for _ in 0..3
Rounds == 3
\* num_cpus::get(), the bound of buffer_unordered
NumCpus == 2
\* the calls of download_descriptors a behaviour makes
MaxCalls == 2
\* StatusCode::OK
StatusOk == 200
NotFoundStatus == 404

Err(kind, code) == [kind |-> kind, code |-> code]
HashMissmatch == Err("HashMissmatch", 0)
HttpError(status) == Err("HttpError", status)
IoNotFound == Err("Io:NotFound", 0)
ReqwestError == Err("Reqwest", 0)
NoError == Err("", 0)

\* what the server answers to GET <index.path>/<file.path>: a transport
\* failure, or a status, an optional Content-Length, and a body whose
\* stream may fail before its end
FileResponses ==
    {[neterr |-> TRUE, status |-> 0, cl |-> <<>>, body |-> <<>>, cut |-> FALSE]}
    \cup [neterr : {FALSE}, status : {StatusOk, NotFoundStatus},
          cl : {<<>>, <<1>>, <<2>>}, body : Bodies, cut : BOOLEAN]

\* Path::parent and its ancestors, as create_dir_all makes them: every
\* prefix of the path that a '/' follows
ParentDirs(path) == {SubSeq(path, 1, i - 1) : i \in {k \in 1..Len(path) : path[k] = Slash}}

\* bytes written from offset 0 over the current content of a file
Overlay(cur, bytes) ==
    IF Len(cur) <= Len(bytes) THEN bytes
    ELSE bytes \o SubSeq(cur, Len(bytes) + 1, Len(cur))

\* the strict prefixes of a body, what a failed stream has delivered
StrictPrefixes(body) == {SubSeq(body, 1, k) : k \in 0..(Len(body) - 1)}

\* a plausible slip: the local copy is never accepted
LocalNever(dsk, f) == FALSE

\* the local hash check of download_inner: the file opens and its digest
\* is file.sha256
LocalHashOk(dsk, f) == dsk[f.path] # <<>> /\ Sha256(dsk[f.path][1]) = f.sha256

\* a plausible slip: the tasks are always allowed to download
DownloadAlways(isOnline) == TRUE

\* the download argument of FileDownloader::download: index_url.is_some()
DownloadFlag(isOnline) == isOnline

\* the filter of download_descriptors
Selected(idx, types, range) ==
    {f \in idx.files :
        /\ \E i \in 1..Len(types) : TypeMatches(f, types[i])
        /\ Overlap(f, range).value}

\* the state of a fetch task: where it stands in the round, the error it
\* carries, the header of the answer it got, the body it is receiving
NoHeader == [neterr |-> FALSE, status |-> 0, cl |-> <<>>]
Header(resp) == [neterr |-> resp.neterr, status |-> resp.status, cl |-> resp.cl]
Idle == [st |-> "none", err |-> NoError, hdr |-> NoHeader, body |-> <<>>,
         cut |-> FALSE, read |-> FALSE]
Queued(e) == [st |-> "queued", err |-> e, hdr |-> NoHeader, body |-> <<>>,
              cut |-> FALSE, read |-> FALSE]

InFlight == {f \in DOMAIN tasks : tasks[f].st \in {"sent", "writing"}}

NoHist(files) ==
    [gets |-> [f \in files |-> 0],
     runs |-> [f \in files |-> <<>>],
     okRound |-> [f \in files |-> 0],
     srv |-> [f \in files |-> "none"],
     miss |-> [f \in files |-> FALSE],
     disk0 |-> <<>>,
     prev |-> <<>>]

\* the arguments a caller passes
TypeArgs == {<<ServerDescriptor>>, <<ServerDescriptor, BridgeExtraInfo>>}
RangeArgs == {[start |-> Unbounded, end |-> Unbounded], Closed(MaxTime, MaxTime)}

\* download_descriptors is called: the selected files become the downloads
DownloadStart(limit) ==
    /\ constructed
    /\ call.phase \in {"idle", "returned"}
    /\ call.n < limit
    /\ \E types \in TypeArgs, range \in RangeArgs :
        /\ \A f \in index.files : ~Overlap(f, range).panic
        /\ call' = [phase |-> "running", n |-> call.n + 1, types |-> types,
                    range |-> range, round |-> 1, result |-> {}]
        /\ tasks' = [f \in index.files |->
                       IF f \in Selected(index, types, range)
                       THEN Queued(HashMissmatch) ELSE Idle]
        /\ hist' = [NoHist(index.files) EXCEPT
                      !.disk0 = disk,
                      !.prev = IF call.phase = "returned"
                               THEN <<[types |-> call.types, range |-> call.range,
                                       fetched |-> {f \in DOMAIN hist.gets :
                                                      hist.gets[f] > 0}]>>
                               ELSE <<>>]
    /\ UNCHANGED <<disk, dirs>>

\* download_inner up to the request: buffer_unordered polls the task; the
\* local copy is hashed; offline, a miss is NotFound; online the GET is sent
Poll(f) ==
    /\ call.phase = "running"
    /\ tasks[f].st = "queued"
    /\ Cardinality(InFlight) < NumCpus
    /\ LET hit == LocalHashOk(disk, f)
           h1 == [hist EXCEPT !.runs[f] = Append(@, call.round),
                              !.miss[f] = IF call.round = 1 THEN ~hit ELSE @]
       IN IF hit
          THEN /\ tasks' = [tasks EXCEPT ![f].st = "ok"]
               /\ hist' = [h1 EXCEPT !.okRound[f] = call.round]
          ELSE IF ~DownloadFlag(online)
          THEN /\ tasks' = [tasks EXCEPT ![f].st = "err", ![f].err = IoNotFound]
               /\ hist' = h1
          ELSE /\ tasks' = [tasks EXCEPT ![f].st = "sent"]
               /\ hist' = [h1 EXCEPT !.gets[f] = @ + 1]
    /\ UNCHANGED <<disk, dirs, call>>

\* download_inner between send() and create_dir_all: the error the answer
\* is refused with, NoError when the body is to be received
HeaderCheck(f, resp) ==
    IF resp.neterr THEN ReqwestError
    ELSE IF resp.status # StatusOk THEN HttpError(resp.status)
    ELSE IF resp.cl # <<>> /\ resp.cl[1] # f.size THEN HashMissmatch
    ELSE NoError

\* what the answers to the GETs of f.path have been so far, for file g of
\* that path: "good" all 200, whole, hashing to g.sha256, with no
\* Content-Length but g.size; "bad" all 200, whole, not hashing to g.sha256
Classify(g, resp) ==
    IF resp.neterr \/ resp.status # StatusOk \/ resp.cut THEN "mixed"
    ELSE IF Sha256(resp.body) # g.sha256 THEN "bad"
    ELSE IF resp.cl # <<>> /\ resp.cl[1] # g.size THEN "mixed"
    ELSE "good"
Seen(old, new) == IF old = "none" \/ old = new THEN new ELSE "mixed"

\* a plausible slip: the destination is created before the answer is checked
RespondCreatesFirst(f, resp) ==
    LET e == HeaderCheck(f, resp)
    IN /\ call.phase = "running"
       /\ tasks[f].st = "sent"
       /\ hist' = [hist EXCEPT !.srv = [g \in DOMAIN hist.srv |->
                      IF g.path = f.path THEN Seen(hist.srv[g], Classify(g, resp))
                      ELSE hist.srv[g]]]
       /\ dirs' = dirs \cup ParentDirs(f.path)
       /\ disk' = [disk EXCEPT ![f.path] = << <<>> >>]
       /\ IF e # NoError
          THEN tasks' = [tasks EXCEPT ![f].st = "err", ![f].err = e,
                                      ![f].hdr = Header(resp)]
          ELSE tasks' = [tasks EXCEPT ![f].st = "writing", ![f].body = resp.body,
                                      ![f].cut = resp.cut, ![f].hdr = Header(resp)]
       /\ UNCHANGED call

\* download_inner from the answer to File::create: a refused answer ends
\* the task; otherwise the parent directories and the (truncated)
\* destination exist and the body is about to be streamed
RespondWith(f, resp) ==
    LET e == HeaderCheck(f, resp)
    IN /\ call.phase = "running"
       /\ tasks[f].st = "sent"
       /\ hist' = [hist EXCEPT !.srv = [g \in DOMAIN hist.srv |->
                      IF g.path = f.path THEN Seen(hist.srv[g], Classify(g, resp))
                      ELSE hist.srv[g]]]
       /\ IF e # NoError
          THEN /\ tasks' = [tasks EXCEPT ![f].st = "err", ![f].err = e,
                                         ![f].hdr = Header(resp)]
               /\ UNCHANGED <<disk, dirs>>
          ELSE /\ tasks' = [tasks EXCEPT ![f].st = "writing", ![f].body = resp.body,
                                         ![f].cut = resp.cut, ![f].hdr = Header(resp)]
               /\ dirs' = dirs \cup ParentDirs(f.path)
               /\ disk' = [disk EXCEPT ![f.path] = << <<>> >>]
       /\ UNCHANGED call

\* the answer of any server
Respond(f) == \E resp \in FileResponses : RespondWith(f, resp)

\* the answers of a server that serves the selected files as the manifest
\* describes them
FaithfulResponses(f) ==
    {resp \in FileResponses :
        \A g \in DOMAIN tasks :
            (g.path = f.path /\ g \in Selected(index, call.types, call.range))
                => Classify(g, resp) = "good"}

RespondFaithful(f) == \E resp \in FaithfulResponses(f) : RespondWith(f, resp)

\* a plausible slip: the digest is not compared at the end of the stream
StreamResultNoCompare(f, body, cut) == IF cut THEN ReqwestError ELSE NoError

\* the end of the streaming loop: a failed chunk is a transport error; at
\* EOF the running digest is compared to file.sha256
StreamResult(f, body, cut) ==
    IF cut THEN ReqwestError
    ELSE IF Sha256(body) # f.sha256 THEN HashMissmatch
    ELSE NoError

\* download_inner's streaming loop: the chunks received are written to the
\* destination; a stream that fails leaves a strict prefix of the body
Write(f) ==
    /\ call.phase = "running"
    /\ tasks[f].st = "writing"
    /\ \E written \in (IF tasks[f].cut THEN StrictPrefixes(tasks[f].body)
                       ELSE {tasks[f].body}) :
        LET e == StreamResult(f, tasks[f].body, tasks[f].cut)
        IN /\ disk' = [disk EXCEPT ![f.path] = <<Overlay(@[1], written)>>]
           /\ tasks' = [tasks EXCEPT ![f].st = IF e = NoError THEN "ok" ELSE "err",
                                     ![f].err = e, ![f].read = TRUE,
                                     ![f].hdr = NoHeader]
           /\ hist' = [hist EXCEPT !.okRound[f] = IF e = NoError THEN call.round ELSE @]
    /\ UNCHANGED <<dirs, call>>

\* a plausible slip: every task is run again in the next round
SurvivorsAll(ts) == {f \in DOMAIN ts : ts[f].st \in {"ok", "err"}}

\* filter_map(|res| res.err()): the tasks a round keeps for the next one
Survivors(ts) == {f \in DOMAIN ts : ts[f].st = "err"}

RoundOver == \A f \in DOMAIN tasks : tasks[f].st \in {"none", "ok", "err"}

\* the end of one of the first rounds: the failed tasks are the downloads
\* of the next one
NextRound ==
    /\ call.phase = "running"
    /\ RoundOver
    /\ call.round < Rounds
    /\ call' = [call EXCEPT !.round = @ + 1]
    /\ tasks' = [f \in DOMAIN tasks |->
                   IF f \in Survivors(tasks) THEN Queued(tasks[f].err) ELSE Idle]
    /\ UNCHANGED <<disk, dirs, hist>>

\* the end of the last round: Ok(()) when no download is left, else the
\* (error, file) pairs left; the result is the set of pairs, empty for Ok
Return ==
    /\ call.phase = "running"
    /\ RoundOver
    /\ call.round = Rounds
    /\ call' = [call EXCEPT !.phase = "returned",
                            !.result = {<<tasks[f].err, f>> : f \in Survivors(tasks)}]
    /\ tasks' = [f \in DOMAIN tasks |-> Idle]
    /\ UNCHANGED <<disk, dirs, hist>>

(***************************************************************************)
(* descriptor/kind/mod.rs: Type, VersionnedType and their string forms     *)
(***************************************************************************)
\* Type::as_str of the 18 known kinds, in the order of the enum (index k + 1
\* for the kind of discriminant k)
TypeNames == <<
    \* bandwidth-file
    <<98, 97, 110, 100, 119, 105, 100, 116, 104, 45, 102, 105, 108, 101>>,
    \* bridge-extra-info
    <<98, 114, 105, 100, 103, 101, 45, 101, 120, 116, 114, 97, 45, 105, 110, 102, 111>>,
    \* bridge-network-status
    <<98, 114, 105, 100, 103, 101, 45, 110, 101, 116, 119, 111, 114, 107, 45, 115, 116, 97, 116, 117, 115>>,
    \* bridge-pool-assignment
    <<98, 114, 105, 100, 103, 101, 45, 112, 111, 111, 108, 45, 97, 115, 115, 105, 103, 110, 109, 101, 110, 116>>,
    \* bridge-server-descriptor
    <<98, 114, 105, 100, 103, 101, 45, 115, 101, 114, 118, 101, 114, 45, 100, 101, 115, 99, 114, 105, 112, 116, 111, 114>>,
    \* bridgestrap-stats
    <<98, 114, 105, 100, 103, 101, 115, 116, 114, 97, 112, 45, 115, 116, 97, 116, 115>>,
    \* dir-key-certificate-3
    <<100, 105, 114, 45, 107, 101, 121, 45, 99, 101, 114, 116, 105, 102, 105, 99, 97, 116, 101, 45, 51>>,
    \* directory
    <<100, 105, 114, 101, 99, 116, 111, 114, 121>>,
    \* extra-info
    <<101, 120, 116, 114, 97, 45, 105, 110, 102, 111>>,
    \* microdescriptor
    <<109, 105, 99, 114, 111, 100, 101, 115, 99, 114, 105, 112, 116, 111, 114>>,
    \* network-status-2
    <<110, 101, 116, 119, 111, 114, 107, 45, 115, 116, 97, 116, 117, 115, 45, 50>>,
    \* network-status-consensus-3
    <<110, 101, 116, 119, 111, 114, 107, 45, 115, 116, 97, 116, 117, 115, 45, 99, 111, 110, 115, 101, 110, 115, 117, 115, 45, 51>>,
    \* network-status-microdesc-consensus-3
    <<110, 101, 116, 119, 111, 114, 107, 45, 115, 116, 97, 116, 117, 115, 45, 109, 105, 99, 114, 111, 100, 101, 115, 99, 45, 99, 111, 110, 115, 101, 110, 115, 117, 115, 45, 51>>,
    \* network-status-vote-3
    <<110, 101, 116, 119, 111, 114, 107, 45, 115, 116, 97, 116, 117, 115, 45, 118, 111, 116, 101, 45, 51>>,
    \* server-descriptor
    <<115, 101, 114, 118, 101, 114, 45, 100, 101, 115, 99, 114, 105, 112, 116, 111, 114>>,
    \* snowflake-stats
    <<115, 110, 111, 119, 102, 108, 97, 107, 101, 45, 115, 116, 97, 116, 115>>,
    \* tordnsel
    <<116, 111, 114, 100, 110, 115, 101, 108>>,
    \* torperf
    <<116, 111, 114, 112, 101, 114, 102>>
>>
\* Type::ALL_TYPES, as discriminants
AllTypes == 0..(Len(TypeNames) - 1)
\* a Type: a known kind k, or Unknown(s) after the known kinds
Known(k) == [k |-> k, s |-> <<>>]
Unknown(s) == [k |-> Len(TypeNames), s |-> s]

\* a plausible slip: a hyphen too many in one name, "bridge-strap-stats"
AsStrSlip(t) ==
    IF t.k = Len(TypeNames) THEN t.s
    ELSE IF t.k = 5 THEN SubSeq(TypeNames[6], 1, 6) \o <<45>> \o SubSeq(TypeNames[6], 7, 17)
    ELSE TypeNames[t.k + 1]
AsStr(t) == IF t.k = Len(TypeNames) THEN t.s ELSE TypeNames[t.k + 1]
\* Type::from_str: never fails, what is no known name is Unknown
FromStr(val) ==
    IF \E k \in AllTypes : TypeNames[k + 1] = val
    THEN Known(CHOOSE k \in AllTypes : TypeNames[k + 1] = val)
    ELSE Unknown(val)

\* u32::MAX in decimal, "4294967295"
MaxU32Digits == <<52, 50, 57, 52, 57, 54, 55, 50, 57, 53>>
\* the largest version tried, 2^31 - 1 (the values of the model are below 2^31)
BigVersion == 2147483647
\* the decimal digits of n, as Display for u32 writes them
RECURSIVE FormatU32(_)
FormatU32(n) ==
    IF n < 10 THEN <<48 + n>> ELSE FormatU32(n \div 10) \o <<48 + (n % 10)>>
IsDigits(s) == s # <<>> /\ \A i \in 1..Len(s) : s[i] >= 48 /\ s[i] <= 57
RECURSIVE StripZeros(_)
StripZeros(s) == IF Len(s) > 1 /\ s[1] = 48 THEN StripZeros(Tail(s)) ELSE s
\* the number written by the digits s is at most u32::MAX
FitsU32(s) ==
    LET d == StripZeros(s)
    IN \/ Len(d) < Len(MaxU32Digits)
       \/ /\ Len(d) = Len(MaxU32Digits)
          /\ \/ d = MaxU32Digits
             \/ \E k \in 1..Len(d) :
                    /\ \A j \in 1..(k - 1) : d[j] = MaxU32Digits[j]
                    /\ d[k] < MaxU32Digits[k]
\* the value of a string of digits
RECURSIVE DigitsValue(_)
DigitsValue(s) ==
    IF s = <<>> THEN 0
    ELSE 10 * DigitsValue(SubSeq(s, 1, Len(s) - 1)) + (s[Len(s)] - 48)
\* str::parse::<u32>: an optional '+', then at least one digit, no overflow
ParseU32(s) ==
    LET digits == IF s # <<>> /\ s[1] = 43 THEN Tail(s) ELSE s
    IN IF ~IsDigits(digits) \/ ~FitsU32(digits)
       THEN [ok |-> FALSE, v |-> 0]
       ELSE [ok |-> TRUE, v |-> DigitsValue(digits)]

\* str::split_once(c): the parts before and after the first c
SplitOnce(s, c) ==
    IF \E i \in 1..Len(s) : s[i] = c
    THEN LET i == CHOOSE i \in 1..Len(s) : s[i] = c /\ \A j \in 1..(i - 1) : s[j] # c
         IN [ok |-> TRUE, head |-> SubSeq(s, 1, i - 1), tail |-> SubSeq(s, i + 1, Len(s))]
    ELSE [ok |-> FALSE, head |-> <<>>, tail |-> <<>>]

\* a VersionnedType with the Type in the form above
VTOf(t, major, minor) == [ttype |-> t, version |-> <<major, minor>>]
\* Serialize for VersionnedType: "<name> <major>.<minor>"
Serialize(vt) ==
    AsStr(vt.ttype) \o <<32>> \o FormatU32(vt.version[1]) \o <<46>>
        \o FormatU32(vt.version[2])
DeErr(msg) == [ok |-> FALSE, err |-> msg, value |-> VTOf(Known(0), 0, 0)]
\* Deserialize for VersionnedType
Deserialize(s) ==
    LET sp == SplitOnce(s, 32)
        dot == SplitOnce(sp.tail, 46)
        major == ParseU32(dot.head)
        minor == ParseU32(dot.tail)
    IN IF ~sp.ok THEN DeErr("missing space")
       ELSE IF ~dot.ok THEN DeErr("missing dot")
       ELSE IF ~major.ok THEN DeErr("invalid major")
       ELSE IF ~minor.ok THEN DeErr("invalid minor")
       ELSE [ok |-> TRUE, err |-> "", value |-> VTOf(FromStr(sp.head), major.v, minor.v)]

\* the versions and the kinds tried: the known kinds, Unknown("x") and
\* Unknown("x y")
MaxVersion == 2
Versions == 0..MaxVersion \cup {10, 19, BigVersion}
CodecTypes == {Known(k) : k \in AllTypes} \cup {Unknown(<<120>>), Unknown(<<120, 32, 121>>)}
CodecArgs == {VTOf(t, a, b) : t \in CodecTypes, a \in Versions, b \in Versions}

\* a VersionnedType is serialized and the string deserialized
CodecCall ==
    /\ res = <<>>
    /\ arg \in CodecArgs
    /\ res' = <<[text |-> Serialize(arg), back |-> Deserialize(Serialize(arg))]>>
    /\ UNCHANGED arg

(***************************************************************************)
(* descriptor/kind: VersionnedType::parse, the version gates of the        *)
(* parsers and Descriptor::decode                                          *)
(***************************************************************************)
BridgeNetworkStatus == 2
BridgeServerDescriptor == 4
BridgestrapStats == 5
Microdescriptor == 9
NetworkStatusMicrodescConsensus3 == 12

\* "@type "
AtType == <<64, 116, 121, 112, 101, 32>>
StartsWith(s, pre) == Len(pre) <= Len(s) /\ SubSeq(s, 1, Len(pre)) = pre
Drop(s, n) == SubSeq(s, n + 1, Len(s))
\* the length of the longest prefix of s made of bytes of the set good
SpanLen(s, good) ==
    CHOOSE n \in 0..Len(s) :
        /\ \A i \in 1..n : s[i] \in good
        /\ n < Len(s) => s[n + 1] \notin good
IsDigit(c) == c >= 48 /\ c <= 57
IsSpace(c) == c = 32 \/ c = 9
\* nom u32: one digit or more, no overflow
NomU32(s) ==
    LET n == SpanLen(s, {c \in 0..255 : IsDigit(c)})
    IN IF n = 0 \/ ~FitsU32(SubSeq(s, 1, n))
       THEN [ok |-> FALSE, v |-> 0, rest |-> s]
       ELSE [ok |-> TRUE, v |-> DigitsValue(SubSeq(s, 1, n)), rest |-> Drop(s, n)]
\* nom line_ending: "\n" or "\r\n"
LineEnding(s) ==
    IF StartsWith(s, <<10>>) THEN [ok |-> TRUE, rest |-> Drop(s, 1)]
    ELSE IF StartsWith(s, <<13, 10>>) THEN [ok |-> TRUE, rest |-> Drop(s, 2)]
    ELSE [ok |-> FALSE, rest |-> s]

NoVT == [ok |-> FALSE, ttype |-> Known(0), version |-> <<0, 0>>, rest |-> <<>>]
\* VersionnedType::parse: "@type ", the name up to a space, spaces, major,
\* ".", minor, a line ending
VTParse(input) ==
    IF ~StartsWith(input, AtType) THEN NoVT
    ELSE LET i1 == Drop(input, Len(AtType))
             n == SpanLen(i1, {c \in 0..255 : c # 32})
             name == SubSeq(i1, 1, n)
             i2 == Drop(i1, n)
             sp == SpanLen(i2, {c \in 0..255 : IsSpace(c)})
             major == NomU32(Drop(i2, sp))
             dot == StartsWith(major.rest, <<46>>)
             minor == NomU32(Drop(major.rest, 1))
             le == LineEnding(minor.rest)
         IN IF sp = 0 \/ ~major.ok \/ ~dot \/ ~minor.ok \/ ~le.ok THEN NoVT
            ELSE [ok |-> TRUE, ttype |-> FromStr(name),
                  version |-> <<major.v, minor.v>>, rest |-> le.rest]

\* the results of a parser and of Descriptor::decode
OkDesc(k) == [r |-> "Ok", k |-> k]
UnsupportedDesc == [r |-> "UnsupportedDesc", k |-> 0]
MalformedDesc == [r |-> "MalformedDesc", k |-> 0]
Panic == [r |-> "panic", k |-> 0]

\* the bodies tried: one the parser of its kind accepts, one that lacks a
\* line the parser requires, one whose router line holds no IPv4 address
BodyKinds == {"wellformed", "missing-line", "bad-router-address"}
\* what the parser of kind k does with a body once the version is accepted
ParseBody(k, body) ==
    IF body = "wellformed" THEN OkDesc(k) ELSE MalformedDesc

\* a plausible slip: a window one minor version too wide
BridgeExtraInfoGateWide(version) == version[1] # 1 \/ version[2] > 4
\* the version tests the parsers begin with, TRUE when the version is refused
BridgeExtraInfoGate(version) == version[1] # 1 \/ version[2] > 3
BridgeNetworkStatusGate(version) == version[1] # 1 \/ version[2] > 2
BridgePoolAssignmentGate(version) == version[1] # 1 \/ version[2] # 0
BridgeServerDescriptorGate(version) == version[1] # 1 \/ version[2] > 2
BridgestrapStatsGate(version) == version[1] # 1 \/ version[2] > 0
MicrodescriptorGate(version) == version[1] # 1 \/ version[2] # 0
ServerDescriptorGate(version) == version[1] # 1 \/ version[2] # 0

\* <Kind>::parse(input, version)
BridgeExtraInfoParse(body, version) ==
    IF BridgeExtraInfoGate(version) THEN UnsupportedDesc
    ELSE ParseBody(BridgeExtraInfo, body)
BridgeNetworkStatusParse(body, version) ==
    IF BridgeNetworkStatusGate(version) THEN UnsupportedDesc
    ELSE ParseBody(BridgeNetworkStatus, body)
BridgePoolAssignmentParse(body, version) ==
    IF BridgePoolAssignmentGate(version) THEN UnsupportedDesc
    ELSE ParseBody(BridgePoolAssignment, body)
\* the router line's address and port are parsed with unwrap
BridgeServerDescriptorParse(body, version) ==
    IF BridgeServerDescriptorGate(version) THEN UnsupportedDesc
    ELSE IF body = "bad-router-address" THEN Panic
    ELSE ParseBody(BridgeServerDescriptor, body)
BridgestrapStatsParse(body, version) ==
    IF BridgestrapStatsGate(version) THEN UnsupportedDesc
    ELSE ParseBody(BridgestrapStats, body)
MicrodescriptorParse(body, version) ==
    IF MicrodescriptorGate(version) THEN UnsupportedDesc
    ELSE ParseBody(Microdescriptor, body)
\* todo!()
NetworkStatusMicrodescConsensus3Parse(body, version) == Panic
ServerDescriptorParse(body, version) ==
    IF ServerDescriptorGate(version) THEN UnsupportedDesc
    ELSE ParseBody(ServerDescriptor, body)

\* a raw descriptor: its first line and what follows it
Raw(head, body) == [head |-> head, body |-> body]
\* Descriptor::decode
Decode(raw) ==
    LET vt == VTParse(raw.head)
        k == vt.ttype.k
    IN IF ~vt.ok THEN Panic
       ELSE IF k = BridgeExtraInfo THEN BridgeExtraInfoParse(raw.body, vt.version)
       ELSE IF k = BridgeNetworkStatus THEN BridgeNetworkStatusParse(raw.body, vt.version)
       ELSE IF k = BridgePoolAssignment THEN BridgePoolAssignmentParse(raw.body, vt.version)
       ELSE IF k = BridgeServerDescriptor
       THEN BridgeServerDescriptorParse(raw.body, vt.version)
       ELSE IF k = BridgestrapStats THEN BridgestrapStatsParse(raw.body, vt.version)
       ELSE IF k = Microdescriptor THEN MicrodescriptorParse(raw.body, vt.version)
       ELSE IF k = NetworkStatusMicrodescConsensus3
       THEN NetworkStatusMicrodescConsensus3Parse(raw.body, vt.version)
       ELSE IF k = ServerDescriptor THEN ServerDescriptorParse(raw.body, vt.version)
       ELSE UnsupportedDesc

\* the first lines tried: "@type <name> <major>.<minor>\n" for every known
\* name and "x", and lines that are not of that form
MaxMajor == 2
MaxMinor == 4
HeadLine(name, major, minor) ==
    AtType \o name \o <<32>> \o FormatU32(major) \o <<46>> \o FormatU32(minor) \o <<10>>
GoodHeads ==
    {HeadLine(AsStr(t), major, minor) :
        t \in {Known(k) : k \in AllTypes} \cup {Unknown(<<120>>)},
        major \in 0..MaxMajor, minor \in 0..MaxMinor}
BadHeads ==
    {<<>>,
     \* "router x\n": no @type line
     <<114, 111, 117, 116, 101, 114, 32, 120, 10>>,
     \* "@type torperf 1.0": no line ending
     AtType \o TypeNames[18] \o <<32, 49, 46, 48>>,
     \* "@type torperf 1\n": no minor version
     AtType \o TypeNames[18] \o <<32, 49, 10>>,
     \* "@type torperf 1.4294967296\n": a minor version above u32::MAX
     AtType \o TypeNames[18] \o <<32, 49, 46>> \o SubSeq(MaxU32Digits, 1, 9) \o <<54, 10>>,
     \* "@type torperf\n": no version
     AtType \o TypeNames[18] \o <<10>>}
DecodeArgs == {Raw(h, b) : h \in GoodHeads \cup BadHeads, b \in BodyKinds}

\* Descriptor::decode is applied to a raw descriptor
DecodeCall ==
    /\ res = <<>>
    /\ arg \in DecodeArgs
    /\ res' = <<Decode(arg)>>
    /\ UNCHANGED arg

(***************************************************************************)
(* collector.rs: CollecTor::stream_descriptors, file_to_descriptor_stream  *)
(***************************************************************************)
\* ".tar" and ".tar."
DotTar == <<46, 116, 97, 114>>
DotTarDot == <<46, 116, 97, 114, 46>>

\* str::ends_with and str::contains over byte strings
EndsWith(s, suf) ==
    /\ Len(suf) <= Len(s)
    /\ SubSeq(s, Len(s) - Len(suf) + 1, Len(s)) = suf
Contains(s, sub) ==
    \E i \in 1..(Len(s) - Len(sub) + 1) : SubSeq(s, i, i + Len(sub) - 1) = sub

IsArchive(f) == EndsWith(f.path, DotTar) \/ Contains(f.path, DotTarDot)

\* the timestamps of first_published..=last_published
TimeRangeSet(f) == {t \in Times : RangeContains(TimeRange(f), t)}
\* BoundedSet::disjoint and BoundedSet::union, a cover being a set of timestamps
Disjoint(cover, f) == cover \cap TimeRangeSet(f) = {}
Union(cover, f) == cover \cup TimeRangeSet(f)

\* a plausible slip: a recent file is admitted whatever the cover holds
AdmitsAll(cover, f) == TRUE
\* the condition of the scan: archives always, other files off the cover
Admits(cover, f) == IsArchive(f) \/ Disjoint(cover, f)

\* what FileReader::read_file gives for a file: its bodies in order, then
\* the end of the stream or one I/O error (a file that cannot be opened is
\* no body and the error)
Content(bodies, fail) == [bodies |-> bodies, fail |-> fail]
Missing == Content(<<>>, TRUE)
\* a body is a raw descriptor: "@type server-descriptor 1.0\n" and a server
\* descriptor published at t, the same with a required line missing, and
\* text that does not begin with an @type line
SDHead == HeadLine(AsStr(Known(ServerDescriptor)), 1, 0)
Body(t) == [raw |-> Raw(SDHead, "wellformed"), t |-> t]
BadBody == [raw |-> Raw(SDHead, "missing-line"), t |-> Epoch]
NoTypeBody == [raw |-> Raw(<<114, 111, 117, 116, 101, 114, 32, 120, 10>>, "wellformed"),
               t |-> Epoch]
\* the contents a selected file may have under the base directory
Contents(f) ==
    {Missing,
     Content(<<Body(f.first_published), Body(f.last_published)>>, FALSE),
     Content(<<BadBody, Body(f.last_published)>>, FALSE),
     Content(<<NoTypeBody, Body(f.last_published)>>, FALSE),
     Content(<<Body(f.first_published)>>, TRUE)}

\* the items of the stream: Ok(descriptor) and Err((file, error))
OkItem(f, b) == [ok |-> TRUE, file |-> f, t |-> b.t, err |-> ""]
ErrItem(f, e) == [ok |-> FALSE, file |-> f, t |-> Epoch, err |-> e]
\* and_then(Descriptor::decode) and map_err on one body: the item given,
\* or the panic of decode, which unwinds through the poll of the stream
DecodeItem(f, b) ==
    LET d == Decode(b.raw)
    IN IF d = Panic THEN [panic |-> TRUE, item |-> ErrItem(f, d.r)]
       ELSE IF d.r = "Ok" THEN [panic |-> FALSE, item |-> OkItem(f, b)]
       ELSE [panic |-> FALSE, item |-> ErrItem(f, d.r)]

\* a plausible slip: the archives that pass the filter are put first
StreamSelectedArchivesFirst(idx, ttype, range) ==
    LET sel == SelectSeq(IterFiles(idx.files),
                         LAMBDA f : TypeMatches(f, ttype) /\ Overlap(f, range).value)
    IN SelectSeq(sel, LAMBDA f : IsArchive(f)) \o SelectSeq(sel, LAMBDA f : ~IsArchive(f))
\* the files of the index that pass the filter, in iteration order
StreamSelected(idx, ttype, range) ==
    SelectSeq(IterFiles(idx.files),
              LAMBDA f : TypeMatches(f, ttype) /\ Overlap(f, range).value)

NoStream == [phase |-> "idle", ttype |-> 0,
             range |-> [start |-> Unbounded, end |-> Unbounded],
             todo |-> <<>>, cover |-> {}, cur |-> <<>>,
             left |-> Content(<<>>, FALSE), out |-> <<>>,
             admitted |-> <<>>, dropped |-> {}]

\* the arguments of stream_descriptors
StreamTypes == {ServerDescriptor, BridgeExtraInfo}
StreamRanges == {[start |-> Unbounded, end |-> Unbounded], Closed(1, MaxTime)}

\* the manifests streamed from: names "x.tar", "w.tar", "v", "z"
NameXtar == <<120>> \o DotTar
NameWtar == <<119>> \o DotTar
NameV == <<118>>
NameZ == <<122>>
SD10 == <<VT(ServerDescriptor, 1, 0)>>
\* archives covering [0,2] and [1,2]
ArcX == JFile(NameXtar, 1, 2, SD10, <<0>>, <<2>>, Sha256(Body2))
ArcW == JFile(NameWtar, 1, 2, SD10, <<1>>, <<2>>, Sha256(Body2))
\* recent files covering [1,3], [3,3], [0,1] and, of another type, [3,3]
RecY == JFile(NameY, 1, 3, SD10, <<1>>, <<3>>, Sha256(Body2))
RecV == JFile(NameV, 1, 3, SD10, <<3>>, <<3>>, Sha256(Body2))
RecB == JFile(NameB, 1, 1, SD10, <<0>>, <<1>>, Sha256(Body2))
RecZ == JFile(NameZ, 1, 3, <<VT(BridgeExtraInfo, 1, 3)>>, <<3>>, <<3>>, Sha256(Body2))
\* a/x.tar then r/y
DocArcRec ==
    JDoc(1, 1, BaseUrl, <<JDir(NameA, <<>>, <<ArcX>>), JDir(NameR, <<>>, <<RecY>>)>>, <<>>)
\* a/x.tar then r/v, r/y, r/z
DocArcRecs ==
    JDoc(1, 1, BaseUrl,
         <<JDir(NameA, <<>>, <<ArcX>>), JDir(NameR, <<>>, <<RecV, RecY, RecZ>>)>>, <<>>)
\* a/b, a/w.tar, a/x.tar then r/y
DocArcs ==
    JDoc(1, 1, BaseUrl,
         <<JDir(NameA, <<>>, <<RecB, ArcW, ArcX>>), JDir(NameR, <<>>, <<RecY>>)>>, <<>>)
StreamDocs == {DocArcRec, DocArcRecs, DocArcs}

\* stream_descriptors(ttype, time_range): the lazy stream is built
StreamStart ==
    /\ stream.phase = "idle"
    /\ \E ttype \in StreamTypes, range \in StreamRanges :
        /\ \A f \in index.files : ~Overlap(f, range).panic
        /\ stream' = [NoStream EXCEPT !.phase = "open", !.ttype = ttype,
                                      !.range = range,
                                      !.todo = StreamSelected(index, ttype, range)]
    /\ UNCHANGED store

\* the stream is polled with no file open: the scan takes the next filtered
\* file, admits it (adding its range to the cover) and opens it, or drops it
StreamNextFile ==
    /\ stream.phase = "open"
    /\ stream.cur = <<>>
    /\ stream.todo # <<>>
    /\ LET f == Head(stream.todo)
       IN IF Admits(stream.cover, f)
          THEN stream' = [stream EXCEPT !.todo = Tail(@),
                                        !.cover = Union(@, f),
                                        !.cur = <<f>>,
                                        !.left = store[f],
                                        !.admitted = Append(@, f)]
          ELSE stream' = [stream EXCEPT !.todo = Tail(@),
                                        !.dropped = @ \cup {f}]
    /\ UNCHANGED store

\* the stream is polled with a file open: its next body is decoded and given
\* (or decode panics and the poll with it), or its read error is given and
\* the file ends, or the file ends
StreamNextBody ==
    /\ stream.phase = "open"
    /\ stream.cur # <<>>
    /\ LET f == stream.cur[1]
           l == stream.left
       IN IF l.bodies # <<>>
          THEN LET d == DecodeItem(f, Head(l.bodies))
               IN IF d.panic
                  THEN stream' = [stream EXCEPT !.phase = "panicked"]
                  ELSE stream' = [stream EXCEPT
                           !.out = Append(@, d.item),
                           !.left = Content(Tail(l.bodies), l.fail)]
          ELSE IF l.fail
          THEN stream' = [stream EXCEPT !.out = Append(@, ErrItem(f, "Io")),
                                        !.cur = <<>>,
                                        !.left = Content(<<>>, FALSE)]
          ELSE stream' = [stream EXCEPT !.cur = <<>>]
    /\ UNCHANGED store

\* the stream is polled with no file open and none left: it ends
StreamEnd ==
    /\ stream.phase = "open"
    /\ stream.cur = <<>>
    /\ stream.todo = <<>>
    /\ stream' = [stream EXCEPT !.phase = "done"]
    /\ UNCHANGED store

(***************************************************************************)
(* descriptor/kind/bridge_network_status.rs: the lines after the header    *)
(***************************************************************************)
\* the lines of a body, split at spaces by parse_line: an r line with its
\* nickname (and seven more parameters), an r line with fewer than eight
\* parameters, a, s, w and p lines with a value, an empty line, and a line
\* with another keyword
RLine(id) == [key |-> "r", v |-> id]
RShort == [key |-> "r-short", v |-> 0]
ALine(v) == [key |-> "a", v |-> v]
SLine(v) == [key |-> "s", v |-> v]
WLine(v) == [key |-> "w", v |-> v]
PLine(v) == [key |-> "p", v |-> v]
EmptyLine == [key |-> "", v |-> 0]
OtherLine == [key |-> "x", v |-> 0]

\* NetworkStatusBuilder: every field None (<<>>) or Some (<<value>>); the
\* seven fields an r line sets are held as one
BuilderDefault ==
    [r |-> <<>>, addresses |-> <<>>, flags |-> <<>>, bandwidth |-> <<>>,
     policies |-> <<>>]
\* NetworkStatusBuilder::build: every field but addresses is required
Build(b) ==
    IF b.r = <<>> \/ b.flags = <<>> \/ b.bandwidth = <<>> \/ b.policies = <<>>
    THEN [ok |-> FALSE, net |-> BuilderDefault]
    ELSE [ok |-> TRUE,
          net |-> [r |-> b.r[1],
                   addresses |-> IF b.addresses = <<>> THEN <<>> ELSE b.addresses[1],
                   flags |-> b.flags[1], bandwidth |-> b.bandwidth[1],
                   policies |-> b.policies[1]]]
\* the custom setters push onto the vector, making it first if it is None
Push(field, v) == IF field = <<>> THEN << <<v>> >> ELSE <<Append(field[1], v)>>

\* the state of the fold: lines consumed, the builder, the first flag, the
\* records pushed, and the error that ended it ("" for none)
BnsState(pos, builder, first, out, err, done) ==
    [pos |-> pos, builder |-> builder, first |-> first, network_status |-> out,
     err |-> err, done |-> done]
BnsFail(st, e) == [st EXCEPT !.err = e, !.done = TRUE]

\* a plausible slip: the record in progress is dropped, not pushed
OnRLineNoPush(st, id) ==
    LET built == Build(st.builder)
    IN IF ~built.ok /\ ~st.first THEN BnsFail(st, "NetworkStatus")
       ELSE [st EXCEPT !.first = FALSE,
                       !.builder = [(IF built.ok THEN BuilderDefault ELSE @)
                                        EXCEPT !.r = <<id>>]]
\* an r line: the record in progress is built and pushed and the builder
\* made new; a failed build is let pass before the first r line only; then
\* the fields of the r line are set
OnRLine(st, id) ==
    LET built == Build(st.builder)
    IN IF ~built.ok /\ ~st.first THEN BnsFail(st, "NetworkStatus")
       ELSE [st EXCEPT !.first = FALSE,
                       !.network_status = IF built.ok THEN Append(@, built.net) ELSE @,
                       !.builder = [(IF built.ok THEN BuilderDefault ELSE @)
                                        EXCEPT !.r = <<id>>]]
\* one step of the fold
OnLine(st, line) ==
    LET next == [st EXCEPT !.pos = @ + 1]
    IN IF line.key = "r" THEN OnRLine(next, line.v)
       ELSE IF line.key = "r-short" THEN BnsFail(next, "MalformedDesc")
       ELSE IF line.key = "a"
       THEN [next EXCEPT !.builder.addresses = Push(@, line.v)]
       ELSE IF line.key = "s" THEN [next EXCEPT !.builder.flags = <<line.v>>]
       ELSE IF line.key = "w" THEN [next EXCEPT !.builder.bandwidth = <<line.v>>]
       ELSE IF line.key = "p"
       THEN [next EXCEPT !.builder.policies = Push(@, line.v)]
       ELSE IF line.key = "" THEN next
       ELSE BnsFail(next, "MalformedDesc")
\* the end of the input: the last record is built and pushed
OnEnd(st) ==
    LET built == Build(st.builder)
    IN IF ~built.ok THEN BnsFail(st, "NetworkStatus")
       ELSE [st EXCEPT !.network_status = Append(@, built.net), !.done = TRUE]

\* the bodies tried: lines that precede the first r line, then at most
\* MaxRecords blocks, each an r line and the lines that follow it
MaxRecords == 2
Preludes == {<<>>, <<SLine(9)>>, <<ALine(9), PLine(9), EmptyLine>>}
Blocks(id) ==
    {<<RLine(id), SLine(id), WLine(id), PLine(id)>>,
     <<RLine(id), ALine(id), SLine(id), EmptyLine, WLine(id), PLine(id), PLine(id + 1)>>,
     <<RLine(id), SLine(id), WLine(id)>>,
     <<RLine(id)>>,
     <<RLine(id), SLine(id), OtherLine, WLine(id), PLine(id)>>,
     <<RShort>>}
RECURSIVE BlockSeqs(_)
BlockSeqs(n) ==
    IF n = 0 THEN {<<>>}
    ELSE LET shorter == BlockSeqs(n - 1)
         IN shorter \cup {s \o b : s \in shorter, b \in Blocks(n)}
BnsBodies == {p \o s : p \in Preludes, s \in BlockSeqs(MaxRecords)}

\* BridgeNetworkStatus::parse reaches the lines after the header
BnsBegin ==
    /\ res = <<>>
    /\ arg \in BnsBodies
    /\ res' = <<BnsState(0, BuilderDefault, TRUE, <<>>, "", FALSE)>>
    /\ UNCHANGED arg
\* the fold takes the next line
BnsLine ==
    /\ res # <<>>
    /\ ~res[1].done
    /\ res[1].pos < Len(arg)
    /\ res' = <<OnLine(res[1], arg[res[1].pos + 1])>>
    /\ UNCHANGED arg
\* the fold is over
BnsEnd ==
    /\ res # <<>>
    /\ ~res[1].done
    /\ res[1].pos = Len(arg)
    /\ res' = <<OnEnd(res[1])>>
    /\ UNCHANGED arg

(***************************************************************************)
(* descriptor/kind/bridge_pool_assignment.rs and the nom_combinators of    *)
(* descriptor/mod.rs                                                       *)
(***************************************************************************)
\* text is a sequence of one-character strings
HexDigits ==
    {"0", "1", "2", "3", "4", "5", "6", "7", "8", "9",
     "a", "b", "c", "d", "e", "f", "A", "B", "C", "D", "E", "F"}
FingerprintLen == 40
Rep(c, n) == [i \in 1..n |-> c]

\* nom hex_digit1: the length of the longest run of hexadecimal digits at
\* the start of s
HexRun(s) ==
    IF \A i \in 1..Len(s) : s[i] \in HexDigits THEN Len(s)
    ELSE (CHOOSE i \in 1..Len(s) :
              s[i] \notin HexDigits /\ \A j \in 1..(i - 1) : s[j] \in HexDigits) - 1
\* fingerprint: map_parser(hex_digit1, take(40)): the whole run of digits is
\* consumed, its first forty characters are the value, as written
Fingerprint(s) ==
    IF HexRun(s) < FingerprintLen THEN [ok |-> FALSE, fp |-> <<>>, used |-> 0]
    ELSE [ok |-> TRUE, fp |-> SubSeq(s, 1, FingerprintLen), used |-> HexRun(s)]

\* kv_space: every " key=value" is inserted into a HashMap, a later value
\* for a key replacing the earlier one
RECURSIVE KvSpace(_)
KvSpace(pairs) ==
    IF pairs = <<>> THEN << >>
    ELSE LET n == Len(pairs)
             before == KvSpace(SubSeq(pairs, 1, n - 1))
         IN [k \in DOMAIN before \cup {pairs[n][1]} |->
                IF k = pairs[n][1] THEN pairs[n][2] ELSE before[k]]

\* a body line: the text up to the first space or line end, the number of
\* spaces after it, the pool, the key=value pairs, and whether a line ending
\* closes it
BpaLineOf(word, spaces, pool, pairs, eol) ==
    [word |-> word, spaces |-> spaces, pool |-> pool, pairs |-> pairs, eol |-> eol]
\* tuple((fingerprint, space1, take_till, kv_space, line_ending)) on a line
BpaLineParse(line) ==
    LET f == Fingerprint(line.word)
    IN IF ~f.ok \/ f.used < Len(line.word) \/ line.spaces = 0 \/ ~line.eol
       THEN [ok |-> FALSE, fp |-> <<>>, pool |-> "", kv |-> << >>]
       ELSE [ok |-> TRUE, fp |-> f.fp, pool |-> line.pool, kv |-> KvSpace(line.pairs)]

\* the fold of the iterator into the BTreeMap: insert replaces the value of
\* a key already there; the iterator ends at the first line the tuple
\* refuses, and eof then refuses what is left
RECURSIVE BpaFold(_)
BpaFold(lines) ==
    IF lines = <<>> THEN [ok |-> TRUE, data |-> << >>]
    ELSE LET n == Len(lines)
             before == BpaFold(SubSeq(lines, 1, n - 1))
             l == BpaLineParse(lines[n])
         IN IF ~before.ok \/ ~l.ok THEN [ok |-> FALSE, data |-> << >>]
            ELSE [ok |-> TRUE,
                  data |-> [k \in DOMAIN before.data \cup {l.fp} |->
                               IF k = l.fp THEN <<l.pool, l.kv>> ELSE before.data[k]]]

\* an input: whether it starts with "bridge-pool-assignment ", the date
\* (0 for one that does not parse), whether a line ending follows, the lines
BpaInput(tagged, date, eol, lines) ==
    [tagged |-> tagged, date |-> date, eol |-> eol, lines |-> lines]
\* BridgePoolAssignment::parse
PoolAssignmentParse(input, version) ==
    IF BridgePoolAssignmentGate(version) THEN [ok |-> FALSE, err |-> "UnsupportedDesc"]
    ELSE IF ~input.tagged \/ input.date = 0 \/ ~input.eol
    THEN [ok |-> FALSE, err |-> "MalformedDesc"]
    ELSE LET folded == BpaFold(input.lines)
         IN IF ~folded.ok THEN [ok |-> FALSE, err |-> "MalformedDesc"]
            ELSE [ok |-> TRUE, timestamp |-> input.date, data |-> folded.data]

\* the inputs tried
MaxBpaLines == 2
BpaPairs == {<<>>, <<<<"ip", "4">>>>, <<<<"ip", "4">>, <<"ip", "6">>, <<"transport", "obfs4">>>>}
BpaGoodLines ==
    {BpaLineOf(Rep(c, FingerprintLen), 1, pool, pairs, TRUE) :
        c \in {"a", "A", "7"}, pool \in {"email", "https"}, pairs \in BpaPairs}
BpaOddLines ==
    {BpaLineOf(Rep("a", FingerprintLen - 1), 1, "email", <<>>, TRUE),
     BpaLineOf(Rep("a", FingerprintLen + 1), 1, "email", <<>>, TRUE),
     BpaLineOf(Rep("g", FingerprintLen), 1, "email", <<>>, TRUE),
     BpaLineOf(Rep("a", FingerprintLen), 0, "", <<>>, TRUE),
     BpaLineOf(Rep("a", FingerprintLen), 1, "email", <<>>, FALSE)}
RECURSIVE BpaLineSeqs(_)
BpaLineSeqs(n) ==
    IF n = 0 THEN {<<>>}
    ELSE LET shorter == BpaLineSeqs(n - 1)
         IN shorter \cup {Append(s, l) : s \in shorter, l \in BpaGoodLines \cup BpaOddLines}
BpaHeads == {<<TRUE, 1, TRUE>>, <<TRUE, 2, TRUE>>, <<FALSE, 1, TRUE>>, <<TRUE, 0, TRUE>>,
             <<TRUE, 1, FALSE>>}
BpaArgs ==
    {[input |-> BpaInput(h[1], h[2], h[3], ls), version |-> v] :
        h \in BpaHeads, ls \in BpaLineSeqs(MaxBpaLines), v \in {<<1, 0>>, <<1, 1>>}}

\* BridgePoolAssignment::parse is called
BpaCall ==
    /\ res = <<>>
    /\ arg \in BpaArgs
    /\ res' = <<PoolAssignmentParse(arg.input, arg.version)>>
    /\ UNCHANGED arg

(***************************************************************************)
(* descriptor/file_reader.rs: FileReader::read_file, and the path it is    *)
(* given by CollecTor::file_path                                           *)
(***************************************************************************)
\* "\n@type"
NlAtType == <<10, 64, 116, 121, 112, 101>>
\* ".xz"
DotXz == <<46, 120, 122>>

\* str::find: the position of the first occurrence of pat in s, 0 for None
Find(s, pat) ==
    IF \E i \in 1..(Len(s) - Len(pat) + 1) : SubSeq(s, i, i + Len(pat) - 1) = pat
    THEN CHOOSE i \in 1..(Len(s) - Len(pat) + 1) :
             /\ SubSeq(s, i, i + Len(pat) - 1) = pat
             /\ \A j \in 1..(i - 1) : SubSeq(s, j, j + Len(pat) - 1) # pat
    ELSE 0

\* a plausible slip: the newline of the cut is left out of both pieces
RECURSIVE SplitPlainNewlineDropped(_)
SplitPlainNewlineDropped(body) ==
    LET idx == Find(body, NlAtType)
    IN IF idx = 0 THEN <<body>>
       ELSE <<SubSeq(body, 1, idx - 1)>> \o SplitPlainNewlineDropped(Drop(body, idx))
\* the loop over a plain file: every piece up to and with the newline that
\* an "@type" follows, then what is left
RECURSIVE SplitPlain(_)
SplitPlain(body) ==
    LET idx == Find(body, NlAtType)
    IN IF idx = 0 THEN <<body>>
       ELSE <<SubSeq(body, 1, idx)>> \o SplitPlain(Drop(body, idx))

\* CollecTor::file_path: base_path.join(&file.path), for a relative path
FilePath(base, path) == base \o <<Slash>> \o path

\* what a file holds: text, or a tar archive (xz-compressed or not) with the
\* texts of its entries
Text(bytes) == [kind |-> "text", bytes |-> bytes, entries |-> <<>>]
Tar(kind, entries) == [kind |-> kind, bytes |-> <<>>, entries |-> entries]

\* FileReader::read_file on the path string and what the file holds: how
\* the file is opened, the bodies yielded, and whether an error ends them
ReadFile(pathString, held) ==
    IF EndsWith(pathString, DotTar) \/ Contains(pathString, DotTarDot)
    THEN LET decoder == IF EndsWith(pathString, DotXz) THEN "tar.xz" ELSE "tar"
         IN IF held.kind = decoder
            THEN [as |-> decoder, bodies |-> held.entries, fail |-> FALSE]
            ELSE [as |-> decoder, bodies |-> <<>>, fail |-> TRUE]
    ELSE IF held.kind = "text"
    THEN [as |-> "plain", bodies |-> SplitPlain(held.bytes), fail |-> FALSE]
    ELSE [as |-> "plain", bodies |-> <<>>, fail |-> TRUE]

\* the texts tried: at most MaxTokens of "@type a\n", "x\n", "\n", "@type",
\* "@typo\n" and "x" put together
MaxTokens == 3
TextTokens ==
    {<<64, 116, 121, 112, 101, 32, 97, 10>>, <<120, 10>>, <<10>>,
     <<64, 116, 121, 112, 101>>, <<64, 116, 121, 112, 111, 10>>, <<120>>}
RECURSIVE Texts(_)
Texts(n) ==
    IF n = 0 THEN {<<>>}
    ELSE LET shorter == Texts(n - 1)
         IN shorter \cup {s \o tok : s \in shorter, tok \in TextTokens}
\* base directories "d" and "d.tar.d"; the files a/x.tar, a/x.tar.xz, r/y of
\* an index, an archive file holding an archive and a recent file text
BaseDirs == {<<100>>, <<100>> \o DotTarDot \o <<100>>}
ReaderFiles ==
    {[file |-> FileX, path |-> Join(<<NameA, NameXtar>>), held |-> Tar("tar", <<Body1>>)],
     [file |-> FileX, path |-> Join(<<NameA, NameXtar \o DotXz>>),
      held |-> Tar("tar.xz", <<Body1>>)]}
    \cup {[file |-> FileY, path |-> Join(<<NameR, NameY>>), held |-> Text(t)] :
             t \in Texts(MaxTokens)}
ReaderArgs ==
    {[base |-> b, file |-> [rf.file EXCEPT !.path = rf.path], held |-> rf.held] :
        b \in BaseDirs, rf \in ReaderFiles}

\* file_to_descriptor_stream reads a file of the index
ReaderCall ==
    /\ res = <<>>
    /\ arg \in ReaderArgs
    /\ res' = <<ReadFile(FilePath(arg.base, arg.file.path), arg.held)>>
    /\ UNCHANGED arg

(***************************************************************************)
(* descriptor/kind/utils.rs: descriptor_lines and the extractors of        *)
(* extract_desc!, and DescriptorLine::parse of descriptor/kind/mod.rs      *)
(***************************************************************************)
\* a line of a body: its space-separated words and whether a line ending
\* closes it
BodyLine(words, eol) == [words |-> words, eol |-> eol]

\* DescriptorLine::parse: the first word is the name, the others the values;
\* a leading "opt" with a word after it is dropped; line is set by the caller
DescriptorLineParse(l) ==
    LET name == IF l.words = <<>> THEN "" ELSE Head(l.words)
        values == IF l.words = <<>> THEN <<>> ELSE Tail(l.words)
    IN IF ~l.eol THEN [ok |-> FALSE, name |-> "", values |-> <<>>, line |-> 0]
       ELSE IF name = "opt" /\ values # <<>>
       THEN [ok |-> TRUE, name |-> Head(values), values |-> Tail(values), line |-> 0]
       ELSE [ok |-> TRUE, name |-> name, values |-> values, line |-> 0]

\* descriptor_lines: the lines numbered 1, 2, ... in input order and grouped
\* by name, each group in input order; a line that does not parse ends the
\* iterator and eof refuses what is left
RECURSIVE DescriptorLines(_)
DescriptorLines(lines) ==
    IF lines = <<>> THEN [ok |-> TRUE, desc |-> << >>]
    ELSE LET n == Len(lines)
             before == DescriptorLines(SubSeq(lines, 1, n - 1))
             l == DescriptorLineParse(lines[n])
         IN IF ~before.ok \/ ~l.ok THEN [ok |-> FALSE, desc |-> << >>]
            ELSE [ok |-> TRUE,
                  desc |-> [k \in DOMAIN before.desc \cup {l.name} |->
                               LET old == IF k \in DOMAIN before.desc THEN before.desc[k]
                                          ELSE <<>>
                               IN IF k = l.name THEN Append(old, [l EXCEPT !.line = n])
                                  ELSE old]]

\* HashMap::remove
Remove(desc, k) == [j \in DOMAIN desc \ {k} |-> desc[j]]

Malformed == [ok |-> FALSE, err |-> "MalformedDesc"]

\* a plausible slip: with several lines of the keyword the last one is taken
UniqLast(desc, keyword, n) ==
    IF keyword \notin DOMAIN desc THEN Malformed
    ELSE LET item == desc[keyword][Len(desc[keyword])]
         IN IF Len(item.values) < n THEN Malformed
            ELSE [ok |-> TRUE, names |-> SubSeq(item.values, 1, n),
                  rest |-> SubSeq(item.values, n + 1, Len(item.values)),
                  desc |-> Remove(desc, keyword)]
\* @extractor uniq with n names and no optional name: the group is removed
\* from the map; it must hold one line, whose values must match
\* [a1, .., an, rest @ ..]
Uniq(desc, keyword, n) ==
    IF keyword \notin DOMAIN desc THEN Malformed
    ELSE IF Len(desc[keyword]) # 1 THEN Malformed
    ELSE LET item == desc[keyword][1]
         IN IF Len(item.values) < n THEN Malformed
            ELSE [ok |-> TRUE, names |-> SubSeq(item.values, 1, n),
                  rest |-> SubSeq(item.values, n + 1, Len(item.values)),
                  desc |-> Remove(desc, keyword)]

\* take_uniq: the same test, all the values returned
TakeUniq(desc, key, len) ==
    IF key \notin DOMAIN desc THEN Malformed
    ELSE IF Len(desc[key]) # 1 THEN Malformed
    ELSE IF Len(desc[key][1].values) < len THEN Malformed
    ELSE [ok |-> TRUE, values |-> desc[key][1].values, desc |-> Remove(desc, key)]

\* Vec::sort_by_key(|e| e.line), a stable sort
RECURSIVE SortByLine(_)
SortByLine(v) ==
    IF v = <<>> THEN <<>>
    ELSE LET n == Len(v)
             sorted == SortByLine(SubSeq(v, 1, n - 1))
             k == Cardinality({i \in 1..Len(sorted) : sorted[i].line <= v[n].line})
         IN SubSeq(sorted, 1, k) \o <<v[n]>> \o SubSeq(sorted, k + 1, Len(sorted))

\* the groups of the keywords, removed from the map and appended in the
\* order of the keywords
RECURSIVE Appended(_, _)
Appended(desc, keywords) ==
    IF keywords = <<>> THEN <<>>
    ELSE (IF Head(keywords) \in DOMAIN desc THEN desc[Head(keywords)] ELSE <<>>)
             \o Appended(Remove(desc, Head(keywords)), Tail(keywords))
\* a plausible slip: the appended groups are not sorted
MultiUnsorted(desc, keywords) == Appended(desc, keywords)
\* @extractor multi
Multi(desc, keywords) == SortByLine(Appended(desc, keywords))

\* ServerDescriptor::parse, accept_reject: an entry per line, the first
\* value its ports; a line with no value is refused
AcceptReject(rest) ==
    IF \E i \in 1..Len(rest) : rest[i].values = <<>> THEN Malformed
    ELSE [ok |-> TRUE,
          entries |-> [i \in 1..Len(rest) |->
                          [tag |-> IF rest[i].name = "accept" THEN "Accept" ELSE "Reject",
                           ports |-> rest[i].values[1]]]]

\* the part of a parser that takes uniq("router") with n names and
\* multi("accept", "reject") out of the lines of a body
ExtractDesc(lines, n) ==
    LET dl == DescriptorLines(lines)
    IN IF ~dl.ok THEN [ok |-> FALSE, err |-> "MalformedDesc", stage |-> "lines"]
       ELSE LET u == Uniq(dl.desc, "router", n)
                t == TakeUniq(dl.desc, "router", n)
                rest == Multi(dl.desc, <<"accept", "reject">>)
            IN [ok |-> TRUE, stage |-> "extract", uniq |-> u, take_uniq |-> t,
                rest |-> rest, accept_reject |-> AcceptReject(rest)]

\* the bodies tried: at most MaxBodyLines of these lines
MaxBodyLines == 3
\* the numbers of names of the uniq extractor tried
UniqArities == {0, 1, 3}
LineSet ==
    {BodyLine(<<"router">>, TRUE), BodyLine(<<"router", "n">>, TRUE),
     BodyLine(<<"router", "n", "ip", "port">>, TRUE),
     BodyLine(<<"accept", "1">>, TRUE), BodyLine(<<"reject", "2">>, TRUE),
     BodyLine(<<"opt", "accept", "3">>, TRUE), BodyLine(<<"published">>, TRUE),
     BodyLine(<<"reject", "4">>, FALSE)}
RECURSIVE LineSeqs(_)
LineSeqs(n) ==
    IF n = 0 THEN {<<>>}
    ELSE LET shorter == LineSeqs(n - 1)
         IN shorter \cup {Append(s, l) : s \in shorter, l \in LineSet}
ExtractArgs == {[lines |-> ls, n |-> n] : ls \in LineSeqs(MaxBodyLines), n \in UniqArities}

\* a parser built on extract_desc! is applied to a body
ExtractCall ==
    /\ res = <<>>
    /\ arg \in ExtractArgs
    /\ res' = <<ExtractDesc(arg.lines, arg.n)>>
    /\ UNCHANGED arg

(***************************************************************************)
(* Specifications                                                          *)
(***************************************************************************)
OverlapIdle ==
    /\ ovFile = [first_published |-> Epoch, last_published |-> Epoch,
                 last_modified |-> Epoch]
    /\ ovRange = [start |-> Unbounded, end |-> Unbounded]
    /\ ovResult = <<>>

ReloadIdle ==
    /\ online = FALSE
    /\ diskIndex = <<>>
    /\ index = DefaultIndex
    /\ constructed = FALSE
    /\ lastCall = NoCall

NoDownload == [phase |-> "idle", n |-> 0, types |-> <<>>,
               range |-> [start |-> Unbounded, end |-> Unbounded],
               round |-> 1, result |-> {}]

DownloadIdle ==
    /\ disk = <<>>
    /\ dirs = {}
    /\ call = NoDownload
    /\ tasks = <<>>
    /\ hist = NoHist({})

StreamIdle ==
    /\ store = <<>>
    /\ stream = NoStream

PureIdle ==
    /\ arg = <<>>
    /\ res = <<>>

\* ---- File::overlap on every file and range within the bounds
InitOverlap ==
    /\ ovFile \in OverlapFiles
    /\ ovRange \in Ranges
    /\ ovResult = <<>>
    /\ ReloadIdle
    /\ DownloadIdle
    /\ StreamIdle
    /\ PureIdle

OverlapCall ==
    /\ ovResult = <<>>
    /\ ovResult' = <<Overlap(ovFile, ovRange)>>
    /\ UNCHANGED <<ovFile, ovRange, rlVars, dlVars, stVars, pfVars>>

NextOverlap == OverlapCall

SpecOverlap == InitOverlap /\ [][NextOverlap]_vars

\* ---- collectors made and reloaded over one base directory, empty at first
InitReload ==
    /\ OverlapIdle
    /\ ReloadIdle
    /\ DownloadIdle
    /\ StreamIdle
    /\ PureIdle

NextReload ==
    \/ New /\ UNCHANGED <<ovVars, dlVars, stVars, pfVars>>
    \/ Reload /\ UNCHANGED <<ovVars, dlVars, stVars, pfVars>>
    \/ RemoveIndexFile /\ UNCHANGED <<ovVars, dlVars, stVars, pfVars>>

SpecReload == InitReload /\ [][NextReload]_vars

\* ---- download_descriptors on a constructed collector
\* the manifests the collector was constructed from
DownloadDocs == {DocOne, DocTwo, DocDup}
\* what earlier runs may have left at a path: nothing, a body, a partial body
InitFiles == {<<>>, <<Body1>>, <<Body2>>, <<(<<1>>)>>}

InitDownload ==
    /\ OverlapIdle
    /\ online \in BOOLEAN
    /\ \E doc \in DownloadDocs :
        /\ diskIndex = <<doc>>
        /\ index = ParseIndex(doc)
    /\ constructed = TRUE
    /\ lastCall = NoCall
    /\ disk \in [{f.path : f \in index.files} -> InitFiles]
    /\ dirs = UNION {ParentDirs(p) : p \in {q \in DOMAIN disk : disk[q] # <<>>}}
    /\ call = NoDownload
    /\ tasks = [f \in index.files |-> Idle]
    /\ hist = NoHist(index.files)
    /\ StreamIdle
    /\ PureIdle

NextDownload ==
    \/ DownloadStart(1) /\ UNCHANGED <<ovVars, rlVars, stVars, pfVars>>
    \/ \E f \in DOMAIN tasks : Poll(f) /\ UNCHANGED <<ovVars, rlVars, stVars, pfVars>>
    \/ \E f \in DOMAIN tasks : Respond(f) /\ UNCHANGED <<ovVars, rlVars, stVars, pfVars>>
    \/ \E f \in DOMAIN tasks : Write(f) /\ UNCHANGED <<ovVars, rlVars, stVars, pfVars>>
    \/ NextRound /\ UNCHANGED <<ovVars, rlVars, stVars, pfVars>>
    \/ Return /\ UNCHANGED <<ovVars, rlVars, stVars, pfVars>>

SpecDownload == InitDownload /\ [][NextDownload]_vars

\* ---- repeated calls of an online collector against a faithful server
TwiceDocs == DownloadDocs \cup {DocDupSame}

InitTwice ==
    /\ OverlapIdle
    /\ online = TRUE
    /\ \E doc \in TwiceDocs :
        /\ diskIndex = <<doc>>
        /\ index = ParseIndex(doc)
    /\ constructed = TRUE
    /\ lastCall = NoCall
    /\ disk \in [{f.path : f \in index.files} -> InitFiles]
    /\ dirs = UNION {ParentDirs(p) : p \in {q \in DOMAIN disk : disk[q] # <<>>}}
    /\ call = NoDownload
    /\ tasks = [f \in index.files |-> Idle]
    /\ hist = NoHist(index.files)
    /\ StreamIdle
    /\ PureIdle

NextTwice ==
    \/ DownloadStart(MaxCalls) /\ UNCHANGED <<ovVars, rlVars, stVars, pfVars>>
    \/ \E f \in DOMAIN tasks : Poll(f) /\ UNCHANGED <<ovVars, rlVars, stVars, pfVars>>
    \/ \E f \in DOMAIN tasks : RespondFaithful(f) /\ UNCHANGED <<ovVars, rlVars, stVars, pfVars>>
    \/ \E f \in DOMAIN tasks : Write(f) /\ UNCHANGED <<ovVars, rlVars, stVars, pfVars>>
    \/ NextRound /\ UNCHANGED <<ovVars, rlVars, stVars, pfVars>>
    \/ Return /\ UNCHANGED <<ovVars, rlVars, stVars, pfVars>>

SpecTwice == InitTwice /\ [][NextTwice]_vars

\* ---- one stream_descriptors stream over a loaded index, polled to its end
InitStream ==
    /\ OverlapIdle
    /\ online = FALSE
    /\ \E doc \in StreamDocs :
        /\ diskIndex = <<doc>>
        /\ index = ParseIndex(doc)
    /\ constructed = TRUE
    /\ lastCall = NoCall
    /\ DownloadIdle
    /\ store \in [index.files -> UNION {Contents(f) : f \in index.files}]
    /\ \A f \in index.files : store[f] \in Contents(f)
    /\ stream = NoStream
    /\ PureIdle

NextStream ==
    \/ StreamStart /\ UNCHANGED <<ovVars, rlVars, dlVars, pfVars>>
    \/ StreamNextFile /\ UNCHANGED <<ovVars, rlVars, dlVars, pfVars>>
    \/ StreamNextBody /\ UNCHANGED <<ovVars, rlVars, dlVars, pfVars>>
    \/ StreamEnd /\ UNCHANGED <<ovVars, rlVars, dlVars, pfVars>>

SpecStream == InitStream /\ [][NextStream]_vars

\* ---- VersionnedType serialized and deserialized
InitCodec ==
    /\ OverlapIdle
    /\ ReloadIdle
    /\ DownloadIdle
    /\ StreamIdle
    /\ arg \in CodecArgs
    /\ res = <<>>

NextCodec == CodecCall /\ UNCHANGED <<ovVars, rlVars, dlVars, stVars>>

SpecCodec == InitCodec /\ [][NextCodec]_vars

\* ---- Descriptor::decode on one raw descriptor
InitDecode ==
    /\ OverlapIdle
    /\ ReloadIdle
    /\ DownloadIdle
    /\ StreamIdle
    /\ arg \in DecodeArgs
    /\ res = <<>>

NextDecode == DecodeCall /\ UNCHANGED <<ovVars, rlVars, dlVars, stVars>>

SpecDecode == InitDecode /\ [][NextDecode]_vars

\* ---- BridgeNetworkStatus::parse over the lines of one body
InitBns ==
    /\ OverlapIdle
    /\ ReloadIdle
    /\ DownloadIdle
    /\ StreamIdle
    /\ arg \in BnsBodies
    /\ res = <<>>

NextBns ==
    \/ BnsBegin /\ UNCHANGED <<ovVars, rlVars, dlVars, stVars>>
    \/ BnsLine /\ UNCHANGED <<ovVars, rlVars, dlVars, stVars>>
    \/ BnsEnd /\ UNCHANGED <<ovVars, rlVars, dlVars, stVars>>

SpecBns == InitBns /\ [][NextBns]_vars

\* ---- BridgePoolAssignment::parse on one input
InitBpa ==
    /\ OverlapIdle
    /\ ReloadIdle
    /\ DownloadIdle
    /\ StreamIdle
    /\ arg \in BpaArgs
    /\ res = <<>>

NextBpa == BpaCall /\ UNCHANGED <<ovVars, rlVars, dlVars, stVars>>

SpecBpa == InitBpa /\ [][NextBpa]_vars

\* ---- FileReader::read_file on one file of an index
InitReader ==
    /\ OverlapIdle
    /\ ReloadIdle
    /\ DownloadIdle
    /\ StreamIdle
    /\ arg \in ReaderArgs
    /\ res = <<>>

NextReader == ReaderCall /\ UNCHANGED <<ovVars, rlVars, dlVars, stVars>>

SpecReader == InitReader /\ [][NextReader]_vars

\* ---- descriptor_lines and the extractors on one body
InitExtract ==
    /\ OverlapIdle
    /\ ReloadIdle
    /\ DownloadIdle
    /\ StreamIdle
    /\ arg \in ExtractArgs
    /\ res = <<>>

NextExtract == ExtractCall /\ UNCHANGED <<ovVars, rlVars, dlVars, stVars>>

SpecExtract == InitExtract /\ [][NextExtract]_vars

(***************************************************************************)
(* Properties                                                              *)
(***************************************************************************)
Returned == call.phase = "returned"
\* the files the call selected
Sel == Selected(index, call.types, call.range)
\* the pairs of the result that name file f
PairsOf(f) == {p \in call.result : p[2] = f}
\* the rounds 1..k in order
RoundsUpTo(k) == [i \in 1..k |-> i]

\* C1: download_descriptors runs three rounds over the selected files; it
\* returns Ok iff every selected file's task succeeded in some round, and
\* otherwise exactly one (error, file) pair for each selected file whose
\* task failed in all three rounds, and no pair for any other file.
C1_ThreeRounds ==
    Returned =>
        /\ call.round = Rounds
        /\ \A f \in DOMAIN tasks :
            /\ f \notin Sel => hist.runs[f] = <<>> /\ PairsOf(f) = {}
            /\ (f \in Sel /\ hist.okRound[f] # 0) =>
                   /\ hist.runs[f] = RoundsUpTo(hist.okRound[f])
                   /\ PairsOf(f) = {}
            /\ (f \in Sel /\ hist.okRound[f] = 0) =>
                   /\ hist.runs[f] = RoundsUpTo(Rounds)
                   /\ Cardinality(PairsOf(f)) = 1
        /\ (call.result = {}) <=> (\A f \in Sel : hist.okRound[f] \in 1..Rounds)
        /\ \A p \in call.result : p[2] \in Sel /\ p[1] # NoError

\* a call returned with one file fetched in a later round and one never
C1_Witness ==
    /\ Returned
    /\ \E f, g \in Sel : hist.okRound[f] = 2 /\ hist.okRound[g] = 0

\* C2: after download_descriptors returns, every selected file that is not
\* in the returned error list has on disk a content hashing to file.sha256.
C2_FetchedFilesVerify ==
    Returned => \A f \in Sel : PairsOf(f) = {} => LocalHashOk(disk, f)

\* C2 for the selected files whose path no other selected file has
C2_UniquePathsVerify ==
    Returned =>
        \A f \in Sel :
            (PairsOf(f) = {} /\ \A g \in Sel : g.path = f.path => g = f)
                => LocalHashOk(disk, f)

\* C3: a fetch task runs at most once per round and never after the round
\* in which it succeeded; a file that is not validly cached and whose served
\* body never matches file.sha256 is fetched exactly three times and the
\* result holds exactly the pair (HashMismatch, file) for it.
C3_RetryThenFail ==
    /\ \A f \in DOMAIN tasks :
        /\ Len(hist.runs[f]) <= call.round
        /\ hist.runs[f] = RoundsUpTo(Len(hist.runs[f]))
        /\ hist.okRound[f] # 0 =>
               /\ hist.runs[f] = RoundsUpTo(hist.okRound[f])
               /\ tasks[f].st \in {"none", "ok"}
    /\ Returned =>
        \A f \in Sel :
            (~LocalHashOk(hist.disk0, f) /\ hist.srv[f] = "bad") =>
                /\ hist.gets[f] = Rounds
                /\ hist.runs[f] = RoundsUpTo(Rounds)
                /\ PairsOf(f) = {<<HashMissmatch, f>>}

\* a call returned after a file was served a whole, wrong body every time
C3_Witness ==
    /\ Returned
    /\ \E f \in Sel :
        /\ ~LocalHashOk(hist.disk0, f)
        /\ hist.srv[f] = "bad"
        /\ hist.gets[f] = Rounds
        /\ disk[f.path] # <<>>

SameArgsAsBefore ==
    /\ hist.prev # <<>>
    /\ hist.prev[1].types = call.types
    /\ hist.prev[1].range = call.range

\* C4 as stated: against a faithful server the first call issues one GET
\* per selected file, a second call with the same arguments none, and the
\* second call leaves the disk as the first left it.
C4_OneGetThenNone ==
    Returned =>
        /\ call.n = 1 => \A f \in Sel : hist.gets[f] = 1
        /\ SameArgsAsBefore =>
               /\ \A f \in DOMAIN tasks : hist.gets[f] = 0
               /\ disk = hist.disk0

\* C4 amended: against a faithful server a call returns Ok having issued
\* one GET for each selected file whose local copy was missing or did not
\* hash to file.sha256 when its task ran and none for the others; a second
\* call with the same arguments issues none and leaves the disk as it was.
C4_IdempotentFetch ==
    Returned =>
        /\ call.result = {}
        /\ \A f \in DOMAIN tasks :
               hist.gets[f] = IF f \in Sel /\ hist.miss[f] THEN 1 ELSE 0
        /\ SameArgsAsBefore =>
               /\ \A f \in DOMAIN tasks : hist.gets[f] = 0
               /\ disk = hist.disk0

\* the second of two calls with the same arguments returned, the first
\* having fetched a file
C4_Witness ==
    /\ Returned
    /\ call.n = 2
    /\ SameArgsAsBefore
    /\ hist.prev[1].fetched # {}
    /\ Sel # {}

\* the step in which the task of f gets its answer
AnswerStep(f) == tasks[f].st = "sent" /\ tasks'[f].st # "sent"
\* the step in which the task of f is polled
PollStep(f) == tasks[f].st = "queued" /\ tasks'[f].st # "queued"

\* C5: an answer whose status is not 200 fails the attempt with
\* HttpError(status), and a 200 answer whose Content-Length is present and
\* differs from file.size fails it with HashMismatch; in both cases the
\* body is not read and the destination file and its parent directory are
\* neither created nor modified by the attempt.
C5_RefusedAnswerLeavesDisk ==
    [][\A f \in DOMAIN tasks :
        /\ PollStep(f) => disk' = disk /\ dirs' = dirs
        /\ AnswerStep(f) =>
            LET h == tasks'[f].hdr
                refused == /\ tasks'[f].st = "err"
                           /\ ~tasks'[f].read
                           /\ disk' = disk
                           /\ dirs' = dirs
            IN /\ (~h.neterr /\ h.status # StatusOk) =>
                      refused /\ tasks'[f].err = HttpError(h.status)
               /\ (~h.neterr /\ h.status = StatusOk /\ h.cl # <<>> /\ h.cl[1] # f.size) =>
                      refused /\ tasks'[f].err = HashMissmatch]_vars

\* an attempt refused for its Content-Length, the destination still absent
C5_Witness ==
    \E f \in DOMAIN tasks :
        /\ tasks[f].st = "err"
        /\ tasks[f].err = HashMissmatch
        /\ tasks[f].hdr.status = StatusOk
        /\ tasks[f].hdr.cl # <<>>
        /\ tasks[f].hdr.cl[1] # f.size
        /\ disk[f.path] = <<>>
        /\ ParentDirs(f.path) \cap dirs = {}

\* C6: with index_url == None download_descriptors issues no HTTP request
\* in any round, and every selected file whose local copy is absent or does
\* not hash to file.sha256 is returned with a NotFound I/O error.
C6_OfflineNoHttp ==
    ~online =>
        /\ \A f \in DOMAIN tasks :
            /\ hist.gets[f] = 0
            /\ tasks[f].st \notin {"sent", "writing"}
        /\ call.phase # "idle" => disk = hist.disk0
        /\ Returned =>
            \A f \in Sel :
                ~LocalHashOk(hist.disk0, f) => PairsOf(f) = {<<IoNotFound, f>>}

\* an offline call returned a file whose local copy has the wrong digest
C6_Witness ==
    /\ ~online
    /\ Returned
    /\ \E f \in Sel :
        /\ hist.disk0[f.path] # <<>>
        /\ ~LocalHashOk(hist.disk0, f)
        /\ <<IoNotFound, f>> \in call.result

Deserializes(content) == content # <<>> /\ content[1].wellformed
OfflineCall == lastCall.op # "none" /\ ~lastCall.online

\* C7 as stated: offline, new and reload_index issue no HTTP request and do
\* not write index.json; they succeed if index.json exists, fail otherwise.
C7_OfflineSucceedsIfExists ==
    OfflineCall =>
        /\ lastCall.http = 0
        /\ diskIndex = lastCall.diskBefore
        /\ lastCall.ok <=> lastCall.diskBefore # <<>>

\* C7 amended: offline, new and reload_index issue no HTTP request and do
\* not write index.json; they succeed if index.json exists and deserializes
\* to a manifest, and fail otherwise.
C7_OfflineReload ==
    OfflineCall =>
        /\ lastCall.http = 0
        /\ diskIndex = lastCall.diskBefore
        /\ lastCall.ok <=> Deserializes(lastCall.diskBefore)

\* an offline reload_index succeeded on the manifest an earlier collector left
C7_Witness ==
    /\ OfflineCall
    /\ lastCall.op = "reload"
    /\ lastCall.ok
    /\ Cardinality(index.files) > 1

\* C8: a successful reload_index returns unchanged and keeps the index iff
\* the index parsed from index.json equals the current one, else it stores
\* the parsed index and returns changed; after it the collector's index is
\* the one parsed from <base>/index.json.
C8_ReloadSwaps ==
    (lastCall.op # "none" /\ lastCall.ok) =>
        /\ Deserializes(diskIndex)
        /\ index = ParseIndex(diskIndex[1])
        /\ ~lastCall.changed <=> ParseIndex(diskIndex[1]) = lastCall.indexBefore
        /\ ~lastCall.changed => index = lastCall.indexBefore

\* a reload_index that read other bytes and found the same index
C8_Witness ==
    /\ lastCall.op = "reload"
    /\ lastCall.ok
    /\ ~lastCall.changed
    /\ diskIndex # lastCall.diskBefore
    /\ index.files # {}

\* s <= t in the lexicographic order of byte strings
LexLeq(s, t) ==
    \/ Len(s) <= Len(t) /\ \A i \in 1..Len(s) : s[i] = t[i]
    \/ \E k \in 1..Len(s) :
        /\ k <= Len(t)
        /\ \A i \in 1..(k - 1) : s[i] = t[i]
        /\ s[k] < t[k]

\* C9: the files of an index parsed from a manifest iterate in
\* lexicographic order of path, and a reload_index that reads the bytes the
\* index was loaded from reports unchanged.
C9_SortedAndStable ==
    /\ LET it == IterFiles(index.files)
       IN /\ Len(it) = Cardinality(index.files)
          /\ \A i, j \in 1..Len(it) : i < j => LexLeq(it[i].path, it[j].path)
    /\ (lastCall.op = "reload" /\ lastCall.ok /\ lastCall.afterOk
            /\ diskIndex = lastCall.diskBefore)
        => ~lastCall.changed

\* the same bytes reloaded, of a manifest that lists a.b/x after a/b/x
C9_Witness ==
    /\ lastCall.op = "reload"
    /\ lastCall.ok
    /\ lastCall.afterOk
    /\ diskIndex = lastCall.diskBefore
    /\ diskIndex = <<DocTree>>
    /\ IterFiles(index.files)[1].path = Join(<<NameAdotB, NameX>>)

IsClosed(r) == r.start.kind = "Included" /\ r.end.kind = "Included"
\* [first_published, last_published] and [a, b] share a timestamp
Intersects(f, a, b) ==
    \E t \in Times :
        /\ f.first_published <= t /\ t <= f.last_published
        /\ a <= t /\ t <= b
OverlapSpec(f, a, b) == Intersects(f, a, b) \/ (a <= f.last_modified /\ f.last_modified <= b)

\* C10 as stated: for a closed bounded range [a,b], a <= b, and every File
\* (one whose last_published defaulted to the epoch included), overlap is
\* true iff [first_published, last_published] meets [a,b] or
\* a <= last_modified <= b.
C10_OverlapEveryFile ==
    (ovResult # <<>> /\ IsClosed(ovRange) /\ ovRange.start.v <= ovRange.end.v) =>
        /\ ~ovResult[1].panic
        /\ ovResult[1].value <=> OverlapSpec(ovFile, ovRange.start.v, ovRange.end.v)

\* C10 amended: for a closed range [a,b] overlap is true iff a <= t <= b for
\* t one of first_published, last_published, last_modified, or
\* first_published <= a <= last_published; for a <= b and a File with
\* first_published <= last_published that is the stated condition.
C10_OverlapOrderedFile ==
    (ovResult # <<>> /\ IsClosed(ovRange)) =>
        LET a == ovRange.start.v
            b == ovRange.end.v
            In(t) == a <= t /\ t <= b
        IN /\ ~ovResult[1].panic
           /\ ovResult[1].value <=>
                  \/ In(ovFile.first_published)
                  \/ In(ovFile.last_published)
                  \/ In(ovFile.last_modified)
                  \/ ovFile.first_published <= a /\ a <= ovFile.last_published
           /\ (a <= b /\ ovFile.first_published <= ovFile.last_published) =>
                  (ovResult[1].value <=> OverlapSpec(ovFile, a, b))

\* overlap found for a range strictly inside first..=last of a file whose
\* first_published is the epoch
C10_Witness ==
    /\ ovResult # <<>>
    /\ IsClosed(ovRange)
    /\ ovResult[1].value
    /\ ovFile.first_published = Epoch
    /\ ovFile.first_published < ovRange.start.v
    /\ ovRange.start.v <= ovRange.end.v
    /\ ovRange.end.v < ovFile.last_published
    /\ ovFile.last_modified > ovRange.end.v

StreamDone == stream.phase = "done"
\* the files the stream's filter selected, in iteration order
SelStream == StreamSelected(index, stream.ttype, stream.range)
\* the position of file f among the admitted files, 0 if it is not one
AdmittedAt(f) ==
    IF \E k \in 1..Len(stream.admitted) : stream.admitted[k] = f
    THEN CHOOSE k \in 1..Len(stream.admitted) : stream.admitted[k] = f
    ELSE 0
RangesMeet(f, g) == TimeRangeSet(f) \cap TimeRangeSet(g) # {}

\* C11: the stream gives nothing from a recent file whose
\* [first_published, last_published] meets the range of an archive that was
\* admitted earlier in the iteration order.
C11_NoRecentUnderArchive ==
    \A i \in 1..Len(stream.out) :
        LET f == stream.out[i].file
        IN /\ AdmittedAt(f) # 0
           /\ ~IsArchive(f) =>
                 \A j \in 1..(AdmittedAt(f) - 1) :
                     IsArchive(stream.admitted[j]) => ~RangesMeet(f, stream.admitted[j])

\* a stream ended having given a descriptor of a recent file admitted after
\* an archive, and having dropped a recent file that meets the archive
C11_Witness ==
    /\ StreamDone
    /\ \E i \in 1..Len(stream.out) :
        /\ stream.out[i].ok
        /\ ~IsArchive(stream.out[i].file)
        /\ AdmittedAt(stream.out[i].file) > 1
        /\ IsArchive(stream.admitted[1])
    /\ \E g \in stream.dropped : ~IsArchive(g) /\ RangesMeet(g, stream.admitted[1])

\* the descriptors a readable file holds, as stream items, in file order
RECURSIVE OkItems(_, _)
OkItems(f, bodies) ==
    IF bodies = <<>> THEN <<>>
    ELSE (IF Decode(Head(bodies).raw).r = "Ok" THEN <<OkItem(f, Head(bodies))>> ELSE <<>>)
             \o OkItems(f, Tail(bodies))

\* C12: with an archive covering [T0,T1] and a recent file covering
\* [T0+e,T2], T0+e <= T1 < T2, the stream gives the archive's descriptors
\* and then the descriptors of the recent file published in (T1,T2].
C12_ArchiveThenRecentTail ==
    (/\ StreamDone
     /\ Len(SelStream) = 2
     /\ IsArchive(SelStream[1])
     /\ ~IsArchive(SelStream[2])
     /\ SelStream[1].first_published <= SelStream[2].first_published
     /\ SelStream[2].first_published <= SelStream[1].last_published
     /\ SelStream[1].last_published < SelStream[2].last_published
     /\ ~store[SelStream[1]].fail
     /\ ~store[SelStream[2]].fail) =>
        LET a == SelStream[1]
            r == SelStream[2]
        IN SelectSeq(stream.out, LAMBDA it : it.ok) =
               OkItems(a, store[a].bodies)
                   \o SelectSeq(OkItems(r, store[r].bodies),
                                LAMBDA it : it.t > a.last_published)

\* what reading and decoding a file gives: an item per body, in order, and
\* the I/O error after them if the read fails
RECURSIVE ItemsOf(_, _)
ItemsOf(f, c) ==
    IF c.bodies = <<>>
    THEN (IF c.fail THEN <<ErrItem(f, "Io")>> ELSE <<>>)
    ELSE <<IF Decode(Head(c.bodies).raw).r = "Ok" THEN OkItem(f, Head(c.bodies))
           ELSE ErrItem(f, "MalformedDesc")>>
             \o ItemsOf(f, Content(Tail(c.bodies), c.fail))
\* the items of the first k admitted files
RECURSIVE ItemsUpTo(_)
ItemsUpTo(k) ==
    IF k = 0 THEN <<>>
    ELSE ItemsUpTo(k - 1) \o ItemsOf(stream.admitted[k], store[stream.admitted[k]])

\* C19: the stream never retries and never stops at an error: each admitted
\* file is read at most once, each failure is one (File, Error) item naming
\* its file, and the stream goes on with the remaining bodies of the file
\* (after a decode error) and with the following files.
C19_ErrorsInBand ==
    /\ stream.phase # "panicked"
    /\ \A j, k \in 1..Len(stream.admitted) :
           stream.admitted[j] = stream.admitted[k] => j = k
    /\ stream.cur # <<>> => stream.cur[1] = stream.admitted[Len(stream.admitted)]
    /\ StreamDone =>
        /\ stream.out = ItemsUpTo(Len(stream.admitted))
        /\ \A f \in DOMAIN store :
               (\E k \in 1..Len(SelStream) : SelStream[k] = f)
                   => (AdmittedAt(f) # 0 \/ f \in stream.dropped)

\* C13: serializing VersionnedType{t,(major,minor)} gives
\* "<type-name> <major>.<minor>" and deserializing that string gives the
\* same t, major and minor, for each of the 18 known kinds and any version.
C13_RoundTrip ==
    (res # <<>> /\ arg \in CodecArgs /\ arg.ttype.k \in AllTypes) =>
        /\ res[1].text = TypeNames[arg.ttype.k + 1] \o <<32>>
                           \o FormatU32(arg.version[1]) \o <<46>>
                           \o FormatU32(arg.version[2])
        /\ res[1].back.ok
        /\ res[1].back.value = arg

\* bridgestrap-stats with the versions 10 and 2^31 - 1 came back
C13_Witness ==
    /\ res # <<>>
    /\ arg \in CodecArgs
    /\ arg.ttype = Known(5)
    /\ arg.version = <<10, BigVersion>>
    /\ res[1].back.ok
    /\ Len(res[1].text) = 17 + 1 + 2 + 1 + 10

\* the versions each kind accepts, as <<major, minor>>
AcceptedVersions(k) ==
    IF k = BridgeExtraInfo THEN {<<1, 0>>, <<1, 1>>, <<1, 2>>, <<1, 3>>}
    ELSE IF k \in {BridgeServerDescriptor, BridgeNetworkStatus}
    THEN {<<1, 0>>, <<1, 1>>, <<1, 2>>}
    ELSE {<<1, 0>>}
GatedKinds == {BridgePoolAssignment, ServerDescriptor, BridgeServerDescriptor,
               BridgeExtraInfo, BridgeNetworkStatus, BridgestrapStats, Microdescriptor}

\* C14: the parser of each kind returns UnsupportedDesc exactly when
\* (major, minor) is outside the window of the kind, and before it looks at
\* the body: a malformed body with such a version gives UnsupportedDesc.
C14_VersionGate ==
    res # <<>> =>
        \A k \in GatedKinds, major \in 0..MaxMajor, minor \in 0..MaxMinor :
            (arg \in DecodeArgs /\ arg.head = HeadLine(TypeNames[k + 1], major, minor)) =>
                (res[1] = UnsupportedDesc <=> <<major, minor>> \notin AcceptedVersions(k))

\* bridge-extra-info 1.4 with a body that lacks a line was refused for its
\* version
C14_Witness ==
    /\ res = <<UnsupportedDesc>>
    /\ arg = Raw(HeadLine(TypeNames[BridgeExtraInfo + 1], 1, 4), "missing-line")

\* C17: Descriptor::decode always returns: Ok, UnsupportedDesc for a known
\* kind that has no working parser and for an unknown kind, MalformedDesc
\* for a malformed @type line or content; it never panics.
C17_DecodeReturns ==
    (res # <<>> /\ arg \in DecodeArgs) =>
        /\ res[1].r \in {"Ok", "UnsupportedDesc", "MalformedDesc"}
        /\ arg.head \in BadHeads => res[1] = MalformedDesc
        /\ (\E major \in 0..MaxMajor, minor \in 0..MaxMinor :
                arg.head = HeadLine(TypeNames[NetworkStatusMicrodescConsensus3 + 1],
                                    major, minor))
               => res[1] = UnsupportedDesc

\* the positions of the r lines among the first n lines of the body
RLinesUpTo(n) == {i \in 1..n : arg[i].key = "r"}
\* the lines of the record that the r line at i opens
LinesOfRecord(i) ==
    {j \in (i + 1)..Len(arg) : \A m \in (i + 1)..j : arg[m].key # "r"}
\* every line is one the parser takes, there is an r line, and every record
\* has its s, w and p lines
RecordsComplete ==
    /\ \A i \in 1..Len(arg) : arg[i].key \in {"r", "a", "s", "w", "p", ""}
    /\ RLinesUpTo(Len(arg)) # {}
    /\ \A i \in RLinesUpTo(Len(arg)) :
           \A key \in {"s", "w", "p"} : \E j \in LinesOfRecord(i) : arg[j].key = key
\* the i-th smallest member of a set of positions
RECURSIVE Nth(_, _)
Nth(S, i) ==
    LET m == CHOOSE x \in S : \A y \in S : x <= y
    IN IF i = 1 THEN m ELSE Nth(S \ {m}, i - 1)

\* C15: for a body whose records are each complete the parser gives one
\* NetworkStatus per r line, in input order: each r line after the first
\* commits the record in progress, the end of the input commits the last.
C15_OneRecordPerRLine ==
    (res # <<>> /\ arg \in BnsBodies /\ RecordsComplete) =>
        LET st == res[1]
            seen == RLinesUpTo(st.pos)
            n == Cardinality(seen)
        IN /\ st.err = ""
           /\ Len(st.network_status) = IF st.done THEN n ELSE IF n = 0 THEN 0 ELSE n - 1
           /\ \A i \in 1..Len(st.network_status) :
                  st.network_status[i].r = arg[Nth(seen, i)].v
           /\ st.done => st.pos = Len(arg)

\* a header followed by two complete r blocks gave two records
C15_Witness ==
    /\ res # <<>>
    /\ arg \in BnsBodies
    /\ Len(arg) > 0
    /\ arg[1].key = "r"
    /\ Cardinality(RLinesUpTo(Len(arg))) = 2
    /\ res[1].done
    /\ res[1].err = ""
    /\ Len(res[1].network_status) = 2

\* a text with its letters A to F in lower case
Lowercase(s) ==
    [i \in 1..Len(s) |->
        CASE s[i] = "A" -> "a" [] s[i] = "B" -> "b" [] s[i] = "C" -> "c"
          [] s[i] = "D" -> "d" [] s[i] = "E" -> "e" [] s[i] = "F" -> "f"
          [] OTHER -> s[i]]
\* a 1.0 input with its header line and every body line of the shape
\* <40-hex-fingerprint> <pool> <k=v>... and a line ending
BpaWellFormed ==
    /\ arg \in BpaArgs
    /\ arg.version = <<1, 0>>
    /\ arg.input.tagged /\ arg.input.date # 0 /\ arg.input.eol
    /\ \A i \in 1..Len(arg.input.lines) : arg.input.lines[i] \in BpaGoodLines

\* C16: on a well-formed 1.0 body the parser returns the header timestamp
\* and a map with one entry per distinct fingerprint of the body lines,
\* keyed by the fingerprint in lower case, holding that line's pool and
\* key-value map.
C16_LowercaseKeys ==
    (res # <<>> /\ BpaWellFormed) =>
        LET lines == arg.input.lines
        IN /\ res[1].ok
           /\ res[1].timestamp = arg.input.date
           /\ DOMAIN res[1].data = {Lowercase(lines[i].word) : i \in 1..Len(lines)}
           /\ \A i \in 1..Len(lines) :
                  (\A j \in (i + 1)..Len(lines) : lines[j].word # lines[i].word) =>
                      res[1].data[Lowercase(lines[i].word)] =
                          <<lines[i].pool, KvSpace(lines[i].pairs)>>

\* the selected files that an attempt of this call has failed for and that
\* a later attempt was made for
Retried(f) == Len(hist.runs[f]) >= 2

\* C18: a fetch that is aborted or ends in HashMissmatch never corrupts the
\* cache: the file it leaves is rejected by the local hash check of the next
\* attempt and overwritten by a fresh download, and a file whose content
\* does not hash to file.sha256 is never reported as fetched.
C18_BadFileNeverFetched ==
    Returned =>
        \A f \in Sel : (Retried(f) /\ PairsOf(f) = {}) => LocalHashOk(disk, f)

\* C20: no two File entries of the index of a collector share a path,
\* whatever the manifest contains.
C20_UniquePaths ==
    constructed => \A f \in index.files : \A g \in index.files : f.path = g.path => f = g

\* C21 as stated: the ranges of the admitted files are pairwise disjoint
C21_AdmittedPairwiseDisjoint ==
    \A j \in 1..Len(stream.admitted) : \A k \in 1..Len(stream.admitted) :
        j # k => ~RangesMeet(stream.admitted[j], stream.admitted[k])

\* C21: the range of every admitted recent file is disjoint from the range
\* of every file admitted before it, and the cover is the union of the
\* ranges of the admitted files; an archive is admitted whatever it meets.
C21_RecentDisjointFromEarlier ==
    /\ \A k \in 1..Len(stream.admitted) :
           ~IsArchive(stream.admitted[k]) =>
               \A j \in 1..(k - 1) : ~RangesMeet(stream.admitted[j], stream.admitted[k])
    /\ stream.cover = UNION {TimeRangeSet(stream.admitted[k]) : k \in 1..Len(stream.admitted)}
    /\ \A f \in stream.dropped :
           ~IsArchive(f) /\ \E k \in 1..Len(stream.admitted) : RangesMeet(stream.admitted[k], f)

\* a stream ended having admitted an archive, then a recent file off its
\* range, and dropped a recent file that meets the cover
C21_Witness ==
    /\ StreamDone
    /\ Len(stream.admitted) >= 2
    /\ IsArchive(stream.admitted[1])
    /\ ~IsArchive(stream.admitted[2])
    /\ \E f \in stream.dropped : ~Disjoint(stream.cover, f)

\* C22 as stated: among the selected files every archive precedes every
\* recent file, so no recent file is looked at before an archive
C22_ArchivesFirst ==
    stream.phase # "idle" =>
        \A i \in 1..Len(SelStream) : \A j \in 1..Len(SelStream) :
            (IsArchive(SelStream[i]) /\ ~IsArchive(SelStream[j])) => i < j

\* C22: the scan meets the selected files in the order of Index.files, that
\* is by path bytewise: an archive is met before a recent file exactly when
\* its path sorts before the recent file's, and only then is its range in
\* the cover when the recent file is considered.
C22_PathOrder ==
    stream.phase # "idle" =>
        LET sel == SelStream
        IN /\ \A i \in 1..Len(sel) : \A j \in 1..Len(sel) :
                  i < j <=> SeqLess(sel[i].path, sel[j].path)
           /\ stream.todo = SubSeq(sel, Len(sel) - Len(stream.todo) + 1, Len(sel))
           /\ {sel[k] : k \in 1..(Len(sel) - Len(stream.todo))}
                  = {stream.admitted[k] : k \in 1..Len(stream.admitted)} \cup stream.dropped

\* a stream ended having admitted a recent file before an archive whose
\* path sorts after it, and dropped a recent file that follows an archive
C22_Witness ==
    /\ StreamDone
    /\ \E j \in 1..Len(stream.admitted) : \E k \in 1..Len(stream.admitted) :
        /\ j < k
        /\ ~IsArchive(stream.admitted[j])
        /\ IsArchive(stream.admitted[k])
        /\ SeqLess(stream.admitted[j].path, stream.admitted[k].path)
    /\ \E f \in stream.dropped : \E k \in 1..Len(stream.admitted) :
        IsArchive(stream.admitted[k]) /\ SeqLess(stream.admitted[k].path, f.path)

\* every file object of a directory of the manifest and of the directories
\* under it, with the '/'-joined names of its ancestors before its own name
RECURSIVE TreeFiles(_, _)
TreeFiles(dir, above) ==
    LET here == IF above = <<>> THEN dir.path ELSE above \o <<Slash>> \o dir.path
    IN {[DeFile(dir.files[i]) EXCEPT !.path = here \o <<Slash>> \o dir.files[i].path] :
            i \in 1..Len(dir.files)}
       \cup UNION {TreeFiles(dir.directories[i], here) : i \in 1..Len(dir.directories)}
\* every file object of the manifest, those at the root included
ManifestFiles(doc) ==
    {DeFile(doc.files[i]) : i \in 1..Len(doc.files)}
    \cup UNION {TreeFiles(doc.directories[i], <<>>) : i \in 1..Len(doc.directories)}

\* C23: a loaded index holds one File for every file object of the manifest
\* tree, at any depth, under the '/'-joined names of its ancestors and its
\* own name, its other fields unaltered; no file of the manifest is dropped.
C23_EveryFileLoaded ==
    (constructed /\ lastCall.ok /\ diskIndex # <<>>) =>
        index.files = ManifestFiles(diskIndex[1])

\* the positions of s at which a newline is immediately followed by "@type"
Cuts(s) ==
    {i \in 1..(Len(s) - Len(NlAtType) + 1) : SubSeq(s, i, i + Len(NlAtType) - 1) = NlAtType}
\* the pieces of s between the cuts of C, each newline staying with the
\* piece before it
RECURSIVE PiecesAt(_, _, _)
PiecesAt(s, C, from) ==
    IF \A c \in C : c < from THEN <<SubSeq(s, from, Len(s))>>
    ELSE LET c == CHOOSE x \in C : x >= from /\ \A y \in C : y >= from => x <= y
         IN <<SubSeq(s, from, c)>> \o PiecesAt(s, C, c + 1)
\* a plain file has been read
PlainRead == res # <<>> /\ arg \in ReaderArgs /\ res[1].as = "plain"

\* C24 as stated: the pieces are those between the cuts, and every one of
\* them begins with "@type"
C24_PiecesBeginWithType ==
    PlainRead =>
        /\ res[1].bodies = PiecesAt(arg.held.bytes, Cuts(arg.held.bytes), 1)
        /\ \A k \in 1..Len(res[1].bodies) :
               StartsWith(res[1].bodies[k], Tail(NlAtType))

\* C24: for a non-archive path the reader yields, in file order, the pieces
\* obtained by cutting the content after every newline that "@type" follows,
\* the final piece included; together they are the content; every piece
\* after the first begins with "@type", the first does iff the content does.
C24_PiecesAtCuts ==
    PlainRead =>
        LET text == arg.held.bytes
            out == res[1].bodies
        IN /\ ~res[1].fail
           /\ out = PiecesAt(text, Cuts(text), 1)
           /\ Len(out) = Cardinality(Cuts(text)) + 1
           /\ Concat(out) = text
           /\ \A k \in 2..Len(out) : StartsWith(out[k], Tail(NlAtType))
           /\ StartsWith(out[1], Tail(NlAtType)) <=> StartsWith(text, Tail(NlAtType))

\* a text that does not begin with "@type" was cut into three pieces
C24_Witness ==
    /\ PlainRead
    /\ Len(res[1].bodies) = 3
    /\ ~StartsWith(arg.held.bytes, Tail(NlAtType))

\* C29: the reader opens <base>/<f.path> as a tar archive iff f.is_archive()
\* is true, and otherwise reads it as a plain concatenated file, for every
\* File of the index and every base directory.
C29_ReaderAgreesWithIndex ==
    (res # <<>> /\ arg \in ReaderArgs) =>
        (res[1].as \in {"tar", "tar.xz"} <=> IsArchive(arg.file))

\* the extractors have been applied to a body whose lines all parse
Extracted == res # <<>> /\ arg \in ExtractArgs /\ res[1].ok
\* the positions of the lines of the body that bear one of the names
LinesNamed(names) ==
    {i \in 1..Len(arg.lines) : DescriptorLineParse(arg.lines[i]).name \in names}

\* C25: uniq(k)[a1..aN] succeeds iff the body holds exactly one line named k
\* and that line has at least N values; it binds the first N values in order
\* and gives the others as rest; otherwise the parser fails with
\* MalformedDesc.
C25_UniqExactlyOne ==
    Extracted =>
        LET at == LinesNamed({"router"})
            u == res[1].uniq
        IN /\ u.ok <=> (/\ Cardinality(at) = 1
                        /\ \A i \in at : Len(DescriptorLineParse(arg.lines[i]).values) >= arg.n)
           /\ u.ok => \A i \in at :
                  LET values == DescriptorLineParse(arg.lines[i]).values
                  IN /\ u.names = SubSeq(values, 1, arg.n)
                     /\ u.names \o u.rest = values
           /\ ~u.ok => u = Malformed
           /\ res[1].take_uniq.ok <=> u.ok

\* uniq succeeded on a body of three lines, one name bound and two values
\* left as rest
C25_Witness ==
    /\ Extracted
    /\ Len(arg.lines) = 3
    /\ res[1].uniq.ok
    /\ arg.n = 1
    /\ Len(res[1].uniq.rest) = 2

\* C26: multi(k1, k2, ...) gives all the lines named by a listed keyword as
\* one sequence in the order of their positions in the body, so interleaved
\* accept and reject lines come out as Accept and Reject entries in input
\* order.
C26_MultiInInputOrder ==
    Extracted =>
        LET at == LinesNamed({"accept", "reject"})
            rest == res[1].rest
        IN /\ Len(rest) = Cardinality(at)
           /\ \A k \in 1..Len(rest) :
                  /\ rest[k].line \in at
                  /\ rest[k].name = DescriptorLineParse(arg.lines[rest[k].line]).name
                  /\ rest[k].values = DescriptorLineParse(arg.lines[rest[k].line]).values
                  /\ \A j \in 1..(k - 1) : rest[j].line < rest[k].line
           /\ res[1].accept_reject.ok
           /\ \A k \in 1..Len(rest) :
                  /\ res[1].accept_reject.entries[k].tag =
                         (IF rest[k].name = "accept" THEN "Accept" ELSE "Reject")
                  /\ res[1].accept_reject.entries[k].ports = rest[k].values[1]

\* a body with a reject line between two accept lines gave Accept, Reject,
\* Accept
C26_Witness ==
    /\ Extracted
    /\ res[1].accept_reject.ok
    /\ Len(res[1].accept_reject.entries) = 3
    /\ res[1].accept_reject.entries[1].tag = "Accept"
    /\ res[1].accept_reject.entries[2].tag = "Reject"
    /\ res[1].accept_reject.entries[3].tag = "Accept"

\* the three contains() tests of overlap all fail: the expect is reached
ExpectReached ==
    /\ ~RangeContains(ovRange, ovFile.first_published)
    /\ ~RangeContains(ovRange, ovFile.last_published)
    /\ ~RangeContains(ovRange, ovFile.last_modified)

\* C27: overlap returns a boolean without panicking for every File and every
\* range shape, empty, inverted and fully unbounded ranges included: the
\* expect is reached only when the range has a bounded endpoint.
C27_OverlapNeverPanics ==
    ovResult # <<>> =>
        /\ ~ovResult[1].panic
        /\ ovResult[1].value \in BOOLEAN
        /\ ExpectReached =>
               (ovRange.start.kind # "Unbounded" \/ ovRange.end.kind # "Unbounded")
        /\ (ovRange.start.kind = "Unbounded" /\ ovRange.end.kind = "Unbounded")
               => ovResult[1].value

\* overlap returned having reached the expect with a range unbounded at its
\* start
C27_Witness ==
    /\ ovResult # <<>>
    /\ ExpectReached
    /\ ovRange.start.kind = "Unbounded"
    /\ ovRange.end.kind = "Excluded"
    /\ ~ovResult[1].panic
    /\ ovResult[1].value


\* C28: a reload_index call that returns an error (HTTP failure, I/O failure
\* or a manifest that does not deserialize) leaves the collector's in-memory
\* Index exactly as it was before the call.
C28_FailedReloadKeepsIndex ==
    (lastCall.op = "reload" /\ ~lastCall.ok) =>
        /\ lastCall.err \in {"Reqwest", "Io", "Serde"}
        /\ ~lastCall.changed
        /\ index = lastCall.indexBefore

\* an offline reload of a collector holding a loaded manifest failed because
\* index.json was gone
C28_Witness ==
    /\ constructed
    /\ lastCall.op = "reload"
    /\ ~lastCall.ok
    /\ lastCall.err = "Io"
    /\ ~lastCall.online
    /\ lastCall.diskBefore = <<>>
    /\ lastCall.indexBefore # DefaultIndex
    /\ lastCall.indexBefore.files # {}
    /\ index = lastCall.indexBefore


\* the position of the r line that opens the i-th record
RLineOf(i) == Nth(RLinesUpTo(Len(arg)), i)
\* the values of the lines named key between the i-th r line and the next
OwnValues(i, key) == {arg[j].v : j \in {m \in LinesOfRecord(RLineOf(i)) : arg[m].key = key}}
\* the record holds nothing but what its own r line and the lines after it gave
FromOwnLines(net, i) ==
    /\ net.r = arg[RLineOf(i)].v
    /\ \A k \in 1..Len(net.addresses) : net.addresses[k] \in OwnValues(i, "a")
    /\ net.flags \in OwnValues(i, "s")
    /\ net.bandwidth \in OwnValues(i, "w")
    /\ \A k \in 1..Len(net.policies) : net.policies[k] \in OwnValues(i, "p")

\* C30: every committed NetworkStatus holds only values of its own r line and
\* of the a/s/w/p lines between that r line and the next r line or the end
\* of the input; nothing set by the lines of another record or by lines that
\* precede the first r line appears in it.
C30_RecordFromOwnLines ==
    (res # <<>> /\ arg \in BnsBodies) =>
        \A i \in 1..Len(res[1].network_status) :
            FromOwnLines(res[1].network_status[i], i)

====
